---- MODULE Spec2Model ----
(***************************************************************************)
(* Bank-statement reconciliation of the STW Baltyk Gdynia backend:         *)
(* the matcher of backend/app/services/matching.py over transactions as    *)
(* backend/app/services/bank_import.py emits them, the parsers of that     *)
(* module, and the import endpoints of backend/app/api/finance.py.         *)
(*                                                                         *)
(* Each component has a specification of its own (Spec for the matcher,    *)
(* SpecClean, SpecCsv, ... for the others); the variables a specification  *)
(* does not use stay at their idle value << >>.                            *)
(*                                                                         *)
(* Text is a sequence of one-character strings, so that str.lower(), the   *)
(* substring test `a in b` and re.search are computed character by         *)
(* character.  The letter l-with-stroke of the configured patterns is      *)
(* written as the one-character token "l_stroke".                          *)
(*                                                                         *)
(* Amounts are decimals in units of 0.001 PLN: 100.00 PLN is 100000.       *)
(***************************************************************************)
EXTENDS Integers, Sequences, FiniteSets, TLC

VARIABLES
    members,        \* the `members` argument: Member rows, in list order
    pending_fees,   \* the `pending_fees` argument: Fee rows, in list order
    transactions,   \* the `transactions` argument: parsed records (dicts)
    results,        \* the list match_transactions returns
    pc,             \* "ready" before the call, then "done" or "raised"
    arg,            \* the argument of the call a parser specification makes
    ret,            \* what that call returned
    db              \* the stored rows the import endpoints read and write

vars == <<members, pending_fees, transactions, results, pc, arg, ret, db>>

\* the variables of the matcher's call, and their idle value
matchVars == <<members, pending_fees, transactions, results>>

IdleMatch == members = << >> /\ pending_fees = << >> /\ transactions = << >> /\ results = << >>

\* the variables of the parsers' and endpoints' calls, and their idle value
callVars == <<arg, ret, db>>

IdleCall == arg = << >> /\ ret = << >> /\ db = << >>

\* ------------------------------------------------------------------ bounds

MaxMembers == 2
MaxFees == 2
MaxTx == 2

\* -------------------------------------------------------------------- text

Digits == {"0", "1", "2", "3", "4", "5", "6", "7", "8", "9"}

\* \s of the patterns
Whitespace == {" ", "\t", "\n", "\r"}

LowerMap ==
    [c \in {"A", "B", "C", "D", "E", "F", "G", "H", "I", "J", "K", "L", "M",
            "N", "O", "P", "Q", "R", "S", "T", "U", "V", "W", "X", "Y", "Z",
            "L_STROKE"} |->
        CASE c = "A" -> "a" [] c = "B" -> "b" [] c = "C" -> "c" [] c = "D" -> "d"
          [] c = "E" -> "e" [] c = "F" -> "f" [] c = "G" -> "g" [] c = "H" -> "h"
          [] c = "I" -> "i" [] c = "J" -> "j" [] c = "K" -> "k" [] c = "L" -> "l"
          [] c = "M" -> "m" [] c = "N" -> "n" [] c = "O" -> "o" [] c = "P" -> "p"
          [] c = "Q" -> "q" [] c = "R" -> "r" [] c = "S" -> "s" [] c = "T" -> "t"
          [] c = "U" -> "u" [] c = "V" -> "v" [] c = "W" -> "w" [] c = "X" -> "x"
          [] c = "Y" -> "y" [] c = "Z" -> "z" [] c = "L_STROKE" -> "l_stroke"]

\* str.lower()
lower(s) ==
    [i \in 1..Len(s) |-> IF s[i] \in DOMAIN LowerMap THEN LowerMap[s[i]] ELSE s[i]]

\* w occurs in t at position p
StartsWithAt(t, p, w) ==
    /\ p + Len(w) - 1 <= Len(t)
    /\ \A k \in 1..Len(w) : t[p + k - 1] = w[k]

\* the substring test `w in t`
Contains(t, w) == \E p \in 1..(Len(t) - Len(w) + 1) : StartsWithAt(t, p, w)

\* the first position at or after p whose character is not in S
RECURSIVE RunEnd(_, _, _)
RunEnd(t, p, S) == IF p <= Len(t) /\ t[p] \in S THEN RunEnd(t, p + 1, S) ELSE p

SetMin(S) == CHOOSE x \in S : \A y \in S : x <= y

\* --------------------------------------------------- member-number patterns

\* MATCHING['member_id_patterns'].  A "label" pattern is
\* (?:l1|l2|...)[:\s]*(\d+); the "slash" pattern is (\d+)/20\d{2}.
\* re.IGNORECASE over a text already lowercased: the labels are in lowercase.
member_id_patterns ==
    << [kind |-> "label",
        labels |-> << <<"n", "r">>,
                      <<"n", "u", "m", "e", "r">>,
                      <<"c", "z", "l", "o", "n", "e", "k">>,
                      <<"c", "z", "l_stroke">>,
                      <<"m">> >>],
       [kind |-> "label",
        labels |-> << <<"c", "z", "l_stroke", "o", "n", "e", "k">>,
                      <<"c", "z", "l_stroke", "o", "n", "k", "a">> >>],
       [kind |-> "slash", labels |-> << >>],
       [kind |-> "label", labels |-> << <<"s", "t", "w">> >>] >>

NoMatch == [found |-> FALSE, group1 |-> << >>]

\* (\d+) anchored at q: the digits are greedy
DigitsGroupAt(t, q) ==
    IF q <= Len(t) /\ t[q] \in Digits
    THEN [found |-> TRUE, group1 |-> SubSeq(t, q, RunEnd(t, q, Digits) - 1)]
    ELSE NoMatch

\* [:\s]*(\d+) anchored at p: the separators are greedy
SepDigitsAt(t, p) == DigitsGroupAt(t, RunEnd(t, p, {":"} \cup Whitespace))

\* hits: the alternatives that lead to a match at p; the first one, in the
\* order written, is the one the engine takes
FirstAlternative(labels, t, p, hits) ==
    IF hits = {} THEN NoMatch
    ELSE SepDigitsAt(t, p + Len(labels[SetMin(hits)]))

\* (?:l1|l2|...)[:\s]*(\d+) anchored at p
LabelMatchAt(labels, t, p) ==
    FirstAlternative(labels, t, p,
        {i \in 1..Len(labels) :
            /\ StartsWithAt(t, p, labels[i])
            /\ SepDigitsAt(t, p + Len(labels[i])).found})

\* /20\d{2} at q, after the digits of group 1 that run from p to q - 1
SlashYearAt(t, p, q) ==
    IF /\ q > p
       /\ q + 4 <= Len(t)
       /\ t[q] = "/" /\ t[q + 1] = "2" /\ t[q + 2] = "0"
       /\ t[q + 3] \in Digits /\ t[q + 4] \in Digits
    THEN [found |-> TRUE, group1 |-> SubSeq(t, p, q - 1)]
    ELSE NoMatch

\* (\d+)/20\d{2} anchored at p
SlashMatchAt(t, p) == SlashYearAt(t, p, RunEnd(t, p, Digits))

MatchAt(pattern, t, p) ==
    IF pattern.kind = "label" THEN LabelMatchAt(pattern.labels, t, p)
    ELSE SlashMatchAt(t, p)

\* ps: the positions where the pattern matches
Leftmost(pattern, t, ps) ==
    IF ps = {} THEN NoMatch ELSE MatchAt(pattern, t, SetMin(ps))

\* re.search: the match at the leftmost position where the pattern matches
re_search(pattern, t) ==
    Leftmost(pattern, t, {p \in 1..Len(t) : MatchAt(pattern, t, p).found})

\* ---------------------------------------------------------------- decimals

\* abs(fee.amount - amount) < Decimal('0.01'), in units of 0.001
AmountTol == 10

Abs(n) == IF n < 0 THEN -n ELSE n

\* The 'amount' of a parsed record is a string.  form "plain": a decimal
\* literal of value v.  form "exp": a literal whose exponent lies beyond the
\* decimal context's Emax, such as '1E+1000000', which _parse_amount accepts
\* and parse_csv emits through str().  form "text": a string that is no
\* decimal literal; parse_mt940 emits str() of the statement library's amount
\* object, which prints the amount followed by its currency ('150.00 PLN').
\* Decimal(str(tx.get('amount', 0))): raises InvalidOperation on form "text".
Decimal(a) == [raised |-> a.form = "text", huge |-> a.form = "exp", v |-> a.v]

\* fee.amount - amount raises Overflow when the result exceeds Emax
Overflows(amount) == amount.huge

WithinTolIncl(fee_amount, amount) == Abs(fee_amount - amount.v) <= AmountTol

\* abs(fee.amount - amount) < Decimal('0.01')
WithinTol(fee_amount, amount) == Abs(fee_amount - amount.v) < AmountTol

\* -------------------------------------------------------------- list helpers

RECURSIVE Dedup(_)
\* the keys of a dict filled in list order: first occurrences, in order
Dedup(s) ==
    IF s = << >> THEN << >>
    ELSE LET rest == Dedup(SubSeq(s, 1, Len(s) - 1))
             x == s[Len(s)]
         IN  IF \E i \in 1..Len(rest) : rest[i] = x THEN rest ELSE Append(rest, x)

\* ---------------------------------------------------------- lookup structures

\* members_by_number = {m.member_number: m for m in members if m.member_number}
\* a later member with the same number replaces an earlier one
members_by_number(ms) ==
    LET nums == {ms[i].member_number : i \in {j \in 1..Len(ms) : ms[j].member_number /= << >>}}
    IN  [n \in nums |->
            ms[CHOOSE i \in 1..Len(ms) :
                  /\ ms[i].member_number = n
                  /\ \A j \in 1..Len(ms) : ms[j].member_number = n => j <= i]]

\* the keys of members_by_lastname, in insertion order
lastname_keys(ms) == Dedup([i \in 1..Len(ms) |-> lower(ms[i].last_name)])

\* members_by_lastname[lastname]
members_by_lastname(ms, lastname) ==
    SelectSeq(ms, LAMBDA m : lower(m.last_name) = lastname)

fees_by_member_ungrouped(fees) ==
    [id \in {fees[i].member_id : i \in 1..Len(fees)} |-> fees]

\* fees_by_member: member_id -> that member's fees, in list order
fees_by_member(fees) ==
    [id \in {fees[i].member_id : i \in 1..Len(fees)} |->
        SelectSeq(fees, LAMBDA f : f.member_id = id)]

\* ------------------------------------------------------------ the two tables

\* Member rows (models/member.py): member_number is nullable and unique, << >>
\* stands for None; names are not nullable.
Jan == <<"J", "a", "n">>
Ewa == <<"E", "w", "a">>
Nowak == <<"N", "o", "w", "a", "k">>
Li == <<"L", "i">>

MemberRows ==
    << [id |-> 1, member_number |-> <<"5">>, first_name |-> Jan, last_name |-> Nowak],
       [id |-> 2, member_number |-> << >>,   first_name |-> Ewa, last_name |-> Nowak],
       [id |-> 3, member_number |-> <<"9">>, first_name |-> Jan, last_name |-> Li] >>

\* Fee rows (models/fee.py) in status pending or overdue: amount is
\* Numeric(10, 2), due_date a day number, fee_type the name of the fee type.
FeeRows ==
    << [id |-> 11, member_id |-> 1, amount |-> 100000, due_date |-> 2, fee_type |-> "annual"],
       [id |-> 12, member_id |-> 1, amount |-> 100010, due_date |-> 1, fee_type |-> "entry"],
       [id |-> 13, member_id |-> 2, amount |-> 100000, due_date |-> 1, fee_type |-> "annual"] >>

\* fee.member: the Member row the fee's foreign key names
fee_member(fee) ==
    MemberRows[CHOOSE i \in 1..Len(MemberRows) : MemberRows[i].id = fee.member_id]

\* member.full_name
full_name(m) == m.first_name \o <<" ">> \o m.last_name

\* ---------------------------------------------------------- the parsed records

\* a record as parse_csv and parse_mt940 build it
Tx(description, counterparty, form, v) ==
    [date |-> "2025-03-15", amount |-> [form |-> form, v |-> v],
     description |-> description, counterparty |-> counterparty,
     bank_reference |-> "",
     import_source |-> IF form = "text" THEN "mt940" ELSE "csv"]

TxPool ==
    {
       Tx(<<"A", "d", "a", "m", " ", "9", " ", "n", "r", " ", "5">>,
          << >>, "plain", 100000),
       Tx(<<"N", "r", " ", "5">>,
          << >>, "plain", 100005),
       Tx(<<"N", "o", "w", "a", "k">>,
          << >>, "plain", 100000),
       Tx(<<"J", "a", "n", " ", "N", "o", "w", "a", "k">>,
          <<"E", "w", "a">>, "plain", 50000),
       Tx(<<"s", "k", "l", "a", "d", "k", "a">>,
          <<"E", "w", "a", " ", "N", "o", "w", "a", "k">>, "plain", 50000),
       Tx(<<"L", "i">>,
          << >>, "plain", 100000),
       Tx(<<"N", "r", " ", "5", " ", "N", "o", "w", "a", "k">>,
          << >>, "plain", -100000),
       Tx(<<"N", "o", "w", "a", "k">>,
          << >>, "plain", 0),
       Tx(<<"N", "r", " ", "5">>,
          << >>, "exp", 1),
       Tx(<<"N", "r", " ", "5">>,
          << >>, "text", 0)
    }

\* description + " " + counterparty, both lowercased
combined_text(tx) == lower(tx.description) \o <<" ">> \o lower(tx.counterparty)

\* re.search of every pattern over the texts of TxPool, computed once
SearchCache ==
    [t \in {combined_text(tx) : tx \in TxPool} |->
        [k \in 1..Len(member_id_patterns) |-> re_search(member_id_patterns[k], t)]]

\* re.search(pattern, text, re.IGNORECASE) for the k-th configured pattern
search_pattern(k, text) == SearchCache[text][k]

\* ---------------------------------------------------------------- _find_member

NoneMember == [id |-> 0, member_number |-> << >>, first_name |-> << >>, last_name |-> << >>]

\* return member, confidence
Found(m, confidence) ==
    [raised |-> FALSE, has |-> TRUE, member |-> m, confidence |-> confidence]

\* return None, ''
NotFound == [raised |-> FALSE, has |-> FALSE, member |-> NoneMember, confidence |-> ""]

\* an exception leaves the function
Raised == [raised |-> TRUE, has |-> FALSE, member |-> NoneMember, confidence |-> ""]

\* if match: member_num = match.group(1); if member_num in members_by_number
NumberKnown(match, mbn) == match.found /\ match.group1 \in DOMAIN mbn

\* hits: the patterns whose match is a key of members_by_number; the loop
\* returns at the first of them, in list order
FirstPatternHit(text, mbn, hits) ==
    IF hits = {} THEN NotFound
    ELSE Found(mbn[search_pattern(SetMin(hits), text).group1], "high")

\* 1. member number: each pattern is searched once; its leftmost match decides
NumberStrategy(text, ms) ==
    FirstPatternHit(text, members_by_number(ms),
        {k \in 1..Len(member_id_patterns) :
            NumberKnown(search_pattern(k, text), members_by_number(ms))})

\* len(lastname) < 3: skip very short names
MinLastnameLen == 3

\* the member the first-name loop returns, for a last name several members bear
FirstNameChoice(text, group) ==
    LET named == {i \in 1..Len(group) : Contains(text, lower(group[i].first_name))}
    IN  IF named /= {} THEN Found(group[SetMin(named)], "medium")
        ELSE Found(group[1], "low")

\* the branch taken for the first last name found in the text
LastnameBranch(text, amount, group, fbm) ==
    LET withFees == {i \in 1..Len(group) : group[i].id \in DOMAIN fbm}
        feeHit == {i \in withFees :
                     \E j \in 1..Len(fbm[group[i].id]) :
                        WithinTol(fbm[group[i].id][j].amount, amount)}
    IN  IF Overflows(amount) /\ withFees /= {} THEN Raised
        ELSE IF feeHit /= {} THEN Found(group[SetMin(feeHit)], "high")
        ELSE IF Len(group) = 1 THEN Found(group[1], "medium")
        ELSE FirstNameChoice(text, group)

\* 2. last name: the first key of members_by_lastname, of length >= 3, that
\* occurs in the text decides
LastnameStrategy(text, amount, ms, fees) ==
    LET keys == lastname_keys(ms)
        inText == {i \in 1..Len(keys) :
                     Len(keys[i]) >= MinLastnameLen /\ Contains(text, keys[i])}
    IN  IF inText = {} THEN NotFound
        ELSE LastnameBranch(text, amount,
                            members_by_lastname(ms, keys[SetMin(inText)]),
                            fees_by_member(fees))

AmountStrategy_untiered(amount, fees) ==
    LET matching == {i \in 1..Len(fees) : WithinTol(fees[i].amount, amount)}
    IN  IF fees = << >> THEN NotFound
        ELSE IF Overflows(amount) THEN Raised
        ELSE IF Cardinality(matching) = 1
             THEN Found(fee_member(fees[CHOOSE i \in matching : TRUE]), "")
             ELSE NotFound

\* 3. amount only: exactly one fee of the whole list within the tolerance
AmountStrategy(amount, fees) ==
    LET matching == {i \in 1..Len(fees) : WithinTol(fees[i].amount, amount)}
    IN  IF fees = << >> THEN NotFound
        ELSE IF Overflows(amount) THEN Raised
        ELSE IF Cardinality(matching) = 1
             THEN Found(fee_member(fees[CHOOSE i \in matching : TRUE]), "low")
             ELSE NotFound

\* the strategies in the order the function runs them: the first that returns
\* a member, or raises, ends the function
FirstStrategy(byNumber, byName, byAmount) ==
    IF byNumber.has THEN byNumber
    ELSE IF byName.raised \/ byName.has THEN byName
    ELSE byAmount

_find_member(text, amount, ms, fees) ==
    FirstStrategy(NumberStrategy(text, ms),
                  LastnameStrategy(text, amount, ms, fees),
                  AmountStrategy(amount, fees))

\* ----------------------------------------------------------- _find_matching_fee

unsorted(s) == s

RECURSIVE sorted_by_due_date(_)
\* sorted(fees, key=lambda f: f.due_date): stable
sorted_by_due_date(s) ==
    IF s = << >> THEN << >>
    ELSE LET rest == sorted_by_due_date(SubSeq(s, 1, Len(s) - 1))
             x == s[Len(s)]
             k == Cardinality({i \in 1..Len(rest) : rest[i].due_date <= x.due_date})
         IN  SubSeq(rest, 1, k) \o <<x>> \o SubSeq(rest, k + 1, Len(rest))

NoneFee == [id |-> 0, member_id |-> 0, amount |-> 0, due_date |-> 0, fee_type |-> ""]

\* for fee in sorted_fees: the first fee within the tolerance is returned
FirstWithinTol(amount, sorted_fees) ==
    LET exact == {i \in 1..Len(sorted_fees) : WithinTol(sorted_fees[i].amount, amount)}
    IN  IF Overflows(amount) /\ sorted_fees /= << >>
        THEN [raised |-> TRUE, has |-> FALSE, fee |-> NoneFee]
        ELSE IF exact = {} THEN [raised |-> FALSE, has |-> FALSE, fee |-> NoneFee]
        ELSE [raised |-> FALSE, has |-> TRUE, fee |-> sorted_fees[SetMin(exact)]]

_find_matching_fee(amount, fees) == FirstWithinTol(amount, sorted_by_due_date(fees))

\* ------------------------------------------------------------ match_transactions

\* result[key] = value
Put(d, key, value) == (key :> value) @@ d

dict_alias_source(tx, result) == result

\* result = tx.copy(): the assignments to result leave tx as it was
dict_copy_source(tx, result) == tx

\* result with the three keys of a found member
SuggestMember(tx, member, confidence) ==
    Put(Put(Put(tx, "suggested_member_id", member.id),
            "suggested_member_name", full_name(member)),
        "match_confidence", confidence)

\* fee = _find_matching_fee(...); if fee: the two keys of the fee
SuggestFee(tx, result, fee) ==
    IF fee.raised THEN [raised |-> TRUE, result |-> tx]
    ELSE IF fee.has
         THEN [raised |-> FALSE,
               result |-> Put(Put(result, "suggested_fee_id", fee.fee.id),
                              "suggested_fee_type", fee.fee.fee_type)]
         ELSE [raised |-> FALSE, result |-> result]

\* the body of `for tx in transactions`, for a member that was found
Suggest(tx, amount, member, confidence, fbm) ==
    IF member.id \notin DOMAIN fbm
    THEN [raised |-> FALSE, result |-> SuggestMember(tx, member, confidence)]
    ELSE SuggestFee(tx, SuggestMember(tx, member, confidence),
                    _find_matching_fee(amount, fbm[member.id]))

non_positive_strict(amount) == ~amount.huge /\ amount.v < 0

\* if amount <= 0: only positive amounts (income) are matched
non_positive(amount) == ~amount.huge /\ amount.v <= 0

\* member, confidence = _find_member(...); if member: ...
match_found(tx, amount, found, fbm) ==
    IF found.raised THEN [raised |-> TRUE, result |-> tx]
    ELSE IF found.has
         THEN Suggest(tx, amount, found.member, found.confidence, fbm)
         ELSE [raised |-> FALSE, result |-> tx]

\* the body of `for tx in transactions`
match_one(tx, ms, fees) ==
    LET amount == Decimal(tx.amount)
    IN  IF amount.raised THEN [raised |-> TRUE, result |-> tx]
        ELSE IF non_positive(amount) THEN [raised |-> FALSE, result |-> tx]
        ELSE match_found(tx, amount,
                         _find_member(combined_text(tx), amount, ms, fees),
                         fees_by_member(fees))

RECURSIVE match_loop(_, _, _, _, _, _)

\* o: the outcome of the loop body for txs[i]; results.append(result)
loop_append(txs, i, acc, after, ms, fees, o) ==
    IF o.raised THEN [raised |-> TRUE, results |-> << >>, inputs |-> after]
    ELSE match_loop(txs, i + 1, Append(acc, o.result),
                    Append(after, dict_copy_source(txs[i], o.result)), ms, fees)

\* results = []; for tx in transactions: ...
match_loop(txs, i, acc, after, ms, fees) ==
    IF i > Len(txs) THEN [raised |-> FALSE, results |-> acc, inputs |-> after]
    ELSE loop_append(txs, i, acc, after, ms, fees, match_one(txs[i], ms, fees))

\* results: the returned list; inputs: the transactions list after the call
match_transactions(txs, ms, fees) == match_loop(txs, 1, << >>, << >>, ms, fees)

\* ------------------------------------------------------------------- inputs

\* the sequences without repetition of at most n rows of a table
RowLists(rows, n) ==
    {s \in UNION {[1..k -> 1..Len(rows)] : k \in 0..n} :
        \A i, j \in DOMAIN s : i /= j => s[i] /= s[j]}

RowsOf(rows, s) == [i \in DOMAIN s |-> rows[s[i]]]

Batches == UNION {[1..k -> TxPool] : k \in 0..MaxTx}

\* ------------------------------------------------------------ specification

Init ==
    /\ members \in {RowsOf(MemberRows, s) : s \in RowLists(MemberRows, MaxMembers)}
    /\ pending_fees \in {RowsOf(FeeRows, s) : s \in RowLists(FeeRows, MaxFees)}
    /\ transactions \in Batches
    /\ results = << >>
    /\ pc = "ready"
    /\ IdleCall

\* match_transactions returns
MatchReturns ==
    /\ pc = "ready"
    /\ \E r \in {match_transactions(transactions, members, pending_fees)} :
          /\ ~r.raised
          /\ results' = r.results
          /\ transactions' = r.inputs
    /\ pc' = "done"
    /\ UNCHANGED <<members, pending_fees>>
    /\ UNCHANGED callVars

\* match_transactions raises
MatchRaises ==
    /\ pc = "ready"
    /\ match_transactions(transactions, members, pending_fees).raised
    /\ pc' = "raised"
    /\ UNCHANGED <<members, pending_fees, transactions, results>>
    /\ UNCHANGED callVars

Next == MatchReturns \/ MatchRaises

Spec == Init /\ [][Next]_vars

\* ------------------------------------------------------------------- claims

Returned == pc = "done"

Has(r, key) == key \in DOMAIN r

Tiers == {"high", "medium", "low"}

\* the transaction's amount as a number is positive
PositiveTx(tx) == tx.amount.form = "exp" \/ (tx.amount.form = "plain" /\ tx.amount.v > 0)

\* the fee's amount is within 0.01 of the transaction's amount
Near(fee, tx) ==
    /\ tx.amount.form = "plain"
    /\ fee.amount - tx.amount.v < 10
    /\ tx.amount.v - fee.amount < 10

\* the positions of the open fees within 0.01 of the transaction's amount
NearFees(tx) == {j \in 1..Len(pending_fees) : Near(pending_fees[j], tx)}

\* the positions of the members whose last name, of length >= 3, is in the text
NamedMembers(tx) ==
    {j \in 1..Len(members) :
        /\ Len(members[j].last_name) >= 3
        /\ Contains(combined_text(tx), lower(members[j].last_name))}

\* some pattern's match names a known member
NumberMatch(tx) == NumberStrategy(combined_text(tx), members).has

\* C1: in every returned proposal a confidence tier (high, medium or low) is
\* present exactly when suggested_member_id is present.
C1_TierIffMember ==
    Returned =>
        \A i \in 1..Len(results) :
            /\ Has(results[i], "match_confidence") <=> Has(results[i], "suggested_member_id")
            /\ Has(results[i], "match_confidence") => results[i].match_confidence \in Tiers

C1_Witness ==
    /\ Returned
    /\ \E i, j \in 1..Len(results) :
          /\ Has(results[i], "suggested_member_id")
          /\ results[i].match_confidence = "low"
          /\ ~NumberMatch(transactions[i]) /\ NamedMembers(transactions[i]) = {}
          /\ PositiveTx(transactions[j])
          /\ ~Has(results[j], "suggested_member_id")

\* C2: in every returned proposal suggested_fee_id is present only if
\* suggested_member_id is present, and the fee is one of the supplied open fees
\* whose member_id equals suggested_member_id.
C2_FeeOfSuggestedMember ==
    Returned =>
        \A i \in 1..Len(results) :
            Has(results[i], "suggested_fee_id") =>
                /\ Has(results[i], "suggested_member_id")
                /\ \E j \in 1..Len(pending_fees) :
                      /\ pending_fees[j].id = results[i].suggested_fee_id
                      /\ pending_fees[j].member_id = results[i].suggested_member_id

C2_Witness ==
    /\ Returned
    /\ \E i \in 1..Len(results) :
          /\ Has(results[i], "suggested_fee_id")
          /\ \E j \in 1..Len(pending_fees) :
                pending_fees[j].member_id /= results[i].suggested_member_id

\* C3: for every positive-amount transaction whose description contains
\* "nr N", N the member_number of a supplied member, that member is suggested
\* with confidence high, whatever the rest of the text.
C3_NumberInDescription ==
    Returned =>
        \A i \in 1..Len(results) : \A j \in 1..Len(members) :
            ( /\ PositiveTx(transactions[i])
              /\ members[j].member_number /= << >>
              /\ Contains(lower(transactions[i].description),
                          <<"n", "r", " ">> \o members[j].member_number) )
            => /\ Has(results[i], "suggested_member_id")
               /\ results[i].suggested_member_id = members[j].id
               /\ results[i].match_confidence = "high"

\* C4: with no member-number match and no member last name (length >= 3) in
\* the text, a positive-amount transaction gets a suggested member iff exactly
\* one fee of the whole open-fee list is within 0.01 of its amount; the
\* suggestion is that fee's member, at confidence low.
C4_AmountOnly ==
    Returned =>
        \A i \in 1..Len(results) :
            ( /\ PositiveTx(transactions[i])
              /\ ~NumberMatch(transactions[i])
              /\ NamedMembers(transactions[i]) = {} )
            => IF Cardinality(NearFees(transactions[i])) = 1
               THEN /\ Has(results[i], "suggested_member_id")
                    /\ \A j \in NearFees(transactions[i]) :
                          results[i].suggested_member_id = pending_fees[j].member_id
                    /\ results[i].match_confidence = "low"
               ELSE ~Has(results[i], "suggested_member_id")

C4_Witness ==
    /\ Returned
    /\ \E i, k \in 1..Len(results) :
          /\ PositiveTx(transactions[i])
          /\ ~NumberMatch(transactions[i]) /\ NamedMembers(transactions[i]) = {}
          /\ Cardinality(NearFees(transactions[i])) = 1
          /\ Len(pending_fees) = 2
          /\ results[i].match_confidence = "low"
          /\ PositiveTx(transactions[k])
          /\ ~NumberMatch(transactions[k]) /\ NamedMembers(transactions[k]) = {}
          /\ Cardinality(NearFees(transactions[k])) = 2
          /\ ~Has(results[k], "suggested_member_id")

\* the positions of the members that bear the last name of members[j]
Bearers(j) ==
    {k \in 1..Len(members) : lower(members[k].last_name) = lower(members[j].last_name)}

\* the positions of the members of that group whose first name is in the text
FirstNamed(tx, j) ==
    {k \in Bearers(j) : Contains(combined_text(tx), lower(members[k].first_name))}

\* no open fee of the members of that group is within 0.01 of the amount
NoGroupFeeNear(tx, j) ==
    \A f \in NearFees(tx) : \A k \in Bearers(j) : pending_fees[f].member_id /= members[k].id

\* C5: the text contains a last name that two or more members share, there is
\* no member-number match and no open fee of those members within 0.01: the
\* confidence is medium only if exactly one member of the group has the first
\* name in the text (that member is suggested); in every other case the first
\* member of the group, in list order, is suggested with confidence low.
C5_SharedLastName ==
    Returned =>
        \A i \in 1..Len(results) : \A j \in NamedMembers(transactions[i]) :
            ( /\ PositiveTx(transactions[i])
              /\ ~NumberMatch(transactions[i])
              /\ Cardinality(Bearers(j)) >= 2
              /\ NoGroupFeeNear(transactions[i], j) )
            => /\ Has(results[i], "suggested_member_id")
               /\ IF Cardinality(FirstNamed(transactions[i], j)) = 1
                  THEN /\ \A k \in FirstNamed(transactions[i], j) :
                             results[i].suggested_member_id = members[k].id
                       /\ results[i].match_confidence = "medium"
                  ELSE /\ results[i].suggested_member_id = members[SetMin(Bearers(j))].id
                       /\ results[i].match_confidence = "low"

\* C6: a member selected through the last-name strategy (no member-number
\* match) has confidence high only if exactly one supplied member bears the
\* matched last name and one of that member's open fees is within 0.01.
C6_HighNeedsUniqueName ==
    Returned =>
        \A i \in 1..Len(results) : \A j \in NamedMembers(transactions[i]) :
            ( /\ ~NumberMatch(transactions[i])
              /\ Has(results[i], "suggested_member_id")
              /\ results[i].suggested_member_id = members[j].id
              /\ results[i].match_confidence = "high" )
            => /\ Cardinality(Bearers(j)) = 1
               /\ \E f \in NearFees(transactions[i]) :
                     pending_fees[f].member_id = members[j].id

\* the positions of the suggested member's open fees within 0.01 of the amount
OwnNearFees(i) ==
    {f \in NearFees(transactions[i]) :
        pending_fees[f].member_id = results[i].suggested_member_id}

\* C7: when a member was selected, the suggested fee is the earliest-due one of
\* that member's open fees within 0.01 of the amount; when none is within 0.01
\* no fee is suggested, however many open fees the member has.
C7_EarliestDueNearFee ==
    Returned =>
        \A i \in 1..Len(results) :
            Has(results[i], "suggested_member_id") =>
                IF OwnNearFees(i) = {}
                THEN ~Has(results[i], "suggested_fee_id")
                ELSE /\ Has(results[i], "suggested_fee_id")
                     /\ \E f \in OwnNearFees(i) :
                           /\ pending_fees[f].id = results[i].suggested_fee_id
                           /\ \A g \in OwnNearFees(i) :
                                 pending_fees[f].due_date <= pending_fees[g].due_date

C7_Witness ==
    /\ Returned
    /\ \E i, k \in 1..Len(results) :
          /\ Has(results[i], "suggested_fee_id")
          /\ \E f, g \in OwnNearFees(i) :
                f < g /\ pending_fees[f].due_date > pending_fees[g].due_date
          /\ Has(results[k], "suggested_member_id")
          /\ ~Has(results[k], "suggested_fee_id")
          /\ results[k].suggested_member_id = results[i].suggested_member_id

\* C8: a transaction whose amount is zero or negative is returned as it came:
\* the same fields, no suggested member, no tier, no suggested fee.
C8_NonPositivePassThrough ==
    Returned =>
        \A i \in 1..Len(results) :
            (transactions[i].amount.form = "plain" /\ transactions[i].amount.v <= 0)
            => results[i] = transactions[i]

C8_Witness ==
    /\ Returned
    /\ \E i, k \in 1..Len(results) :
          /\ transactions[i].amount.v < 0
          /\ NumberMatch(transactions[i])
          /\ NamedMembers(transactions[i]) /= {}
          /\ \E f \in 1..Len(pending_fees) :
                pending_fees[f].amount = 0 - transactions[i].amount.v
          /\ transactions[k].amount.form = "plain"
          /\ transactions[k].amount.v = 0
          /\ NamedMembers(transactions[k]) /= {}

\* C9: the call returns one proposal per input transaction, in input order;
\* the i-th proposal holds every field of the i-th transaction with the same
\* value; the decision for a transaction is the one it gets in a batch of its
\* own; the input records are as they were.
C9_OrderedIndependentPure ==
    [][ pc' = "done" =>
          /\ transactions' = transactions
          /\ Len(results') = Len(transactions)
          /\ \A i \in 1..Len(transactions) :
                /\ \A key \in DOMAIN transactions[i] :
                      /\ key \in DOMAIN results'[i]
                      /\ results'[i][key] = transactions[i][key]
                /\ results'[i] =
                      match_transactions(<<transactions[i]>>, members, pending_fees).results[1]
                /\ \A j \in 1..Len(transactions) :
                      transactions[i] = transactions[j] => results'[i] = results'[j] ]_vars

C9_Witness ==
    /\ Returned
    /\ Len(results) = 2
    /\ Has(results[1], "suggested_fee_id")
    /\ ~Has(results[2], "suggested_member_id")
    /\ PositiveTx(transactions[2])

\* C10: match_transactions never raises, whatever amount a parser emitted.
C10_NeverRaises == pc /= "raised"

\* ============================================================ text normalizer
\* bank_import._clean_description

\* ' '.join(description.split()): the words, separated by single spaces
RECURSIVE split_join(_, _, _, _)
split_join(s, i, out, gap) ==
    IF i > Len(s) THEN out
    ELSE IF s[i] \in Whitespace THEN split_join(s, i + 1, out, out /= << >>)
    ELSE split_join(s, i + 1, (IF gap THEN Append(out, " ") ELSE out) \o <<s[i]>>, FALSE)

\* str.replace(old, new): the occurrences of old, left to right, not overlapping
RECURSIVE str_replace(_, _, _, _, _)
str_replace(s, i, old, new, out) ==
    IF i > Len(s) THEN out
    ELSE IF StartsWithAt(s, i, old) THEN str_replace(s, i + Len(old), old, new, out \o new)
    ELSE str_replace(s, i + 1, old, new, Append(out, s[i]))

\* str.strip()
strip(s) ==
    LET ks == {k \in 1..Len(s) : s[k] \notin Whitespace}
    IN  IF ks = {} THEN << >>
        ELSE SubSeq(s, SetMin(ks), CHOOSE k \in ks : \A j \in ks : j <= k)

prefixes_to_remove == << <<"/", "R", "O", "C", "/">>, <<"/", "R", "F", "B", "/">>, <<"/", "I", "D", "/">>, <<"/", "B", "N", "F", "/">>, <<"/", "O", "R", "D", "/">> >>

\* for prefix in prefixes_to_remove: description = description.replace(prefix, ' ')
RECURSIVE remove_prefixes(_, _)
remove_prefixes(s, k) ==
    IF k > Len(prefixes_to_remove) THEN s
    ELSE remove_prefixes(str_replace(s, 1, prefixes_to_remove[k], <<" ">>, << >>), k + 1)

_clean_description(description) ==
    IF description = << >> THEN << >>
    ELSE strip(remove_prefixes(split_join(description, 1, << >>, FALSE), 1))

\* ------------------------------------------------- specification: the cleaner

MaxPieces == 4

\* the texts are made of at most MaxPieces of these pieces
CleanPieces ==
    { <<"a">>, <<" ">>, <<"\t">>, <<"/">>, <<"/", "I", "D", "/">>, <<"/", "R", "O", "C", "/">>, <<"/", "R", "F", "B", "/">>, <<"R", "O">>, <<"C", "/">> }

RECURSIVE Flatten(_)
Flatten(ss) == IF ss = << >> THEN << >> ELSE Head(ss) \o Flatten(Tail(ss))

CleanInputs == {Flatten(ps) : ps \in UNION {[1..k -> CleanPieces] : k \in 0..MaxPieces}}

InitClean ==
    /\ arg \in CleanInputs
    /\ ret = << >>
    /\ db = << >>
    /\ pc = "ready"
    /\ IdleMatch

\* _clean_description(arg) returns
CleanReturns ==
    /\ pc = "ready"
    /\ ret' = _clean_description(arg)
    /\ pc' = "done"
    /\ UNCHANGED <<arg, db>>
    /\ UNCHANGED matchVars

NextClean == CleanReturns

SpecClean == InitClean /\ [][NextClean]_vars

\* ------------------------------------------------------------------ claim C17

\* the text holds one of the five tags
HasTag(s) ==
    \E k \in 1..Len(prefixes_to_remove) : Contains(s, prefixes_to_remove[k])

\* no whitespace at either end
Trimmed(s) == s = << >> \/ (s[1] \notin Whitespace /\ s[Len(s)] \notin Whitespace)

\* two whitespace characters in a row
HasWhitespaceRun(s) ==
    \E i \in 1..(Len(s) - 1) : s[i] \in Whitespace /\ s[i + 1] \in Whitespace

\* position i of s lies in an occurrence of a tag
InTag(s, i) ==
    \E k \in 1..Len(prefixes_to_remove) :
        \E p \in 1..i : StartsWithAt(s, p, prefixes_to_remove[k])
                        /\ i < p + Len(prefixes_to_remove[k])

\* the characters of s that are neither whitespace nor part of a tag
OtherChars(s) == SelectSeq([i \in 1..Len(s) |-> IF s[i] \in Whitespace \/ InTag(s, i) THEN " " ELSE s[i]],
                           LAMBDA c : c /= " ")

NonWhitespace(s) == SelectSeq(s, LAMBDA c : c \notin Whitespace)

\* a is b with some characters left out
RECURSIVE IsSubseq(_, _, _, _)
IsSubseq(a, i, b, j) ==
    IF i > Len(a) THEN TRUE
    ELSE IF j > Len(b) THEN FALSE
    ELSE IF a[i] = b[j] THEN IsSubseq(a, i + 1, b, j + 1)
    ELSE IsSubseq(a, i, b, j + 1)

\* every character that is neither whitespace nor part of a tag is kept, in
\* order, and nothing is added
KeepsOthers(input, output) ==
    /\ IsSubseq(OtherChars(input), 1, NonWhitespace(output), 1)
    /\ IsSubseq(NonWhitespace(output), 1, NonWhitespace(input), 1)

\* C17: the result of _clean_description holds none of the tags /ROC/, /RFB/,
\* /ID/, /BNF/, /ORD/, has no whitespace at either end and no run of two or
\* more whitespace characters, and keeps every other character of the input
\* in its order.
C17_CleanedText ==
    pc = "done" =>
        /\ ~HasTag(ret)
        /\ Trimmed(ret)
        /\ ~HasWhitespaceRun(ret)
        /\ KeepsOthers(arg, ret)

\* ============================================================ amounts and dates
\* bank_import._parse_amount, decimal.Decimal(str), str(Decimal),
\* bank_import._parse_date

DigitChars == <<"0", "1", "2", "3", "4", "5", "6", "7", "8", "9">>

DigitValue(c) == (CHOOSE i \in 1..10 : DigitChars[i] = c) - 1

AllDigits(s) == \A i \in 1..Len(s) : s[i] \in Digits

\* int(s) of a string of digits
RECURSIVE ToInt(_)
ToInt(s) == IF s = << >> THEN 0 ELSE 10 * ToInt(SubSeq(s, 1, Len(s) - 1)) + DigitValue(s[Len(s)])

\* str(n) of a natural number
RECURSIVE FromNat(_)
FromNat(n) == IF n < 10 THEN <<DigitChars[n + 1]>> ELSE Append(FromNat(n \div 10), DigitChars[(n % 10) + 1])

\* str(int(s)): the digits without leading zeros
RECURSIVE StripZeros(_)
StripZeros(s) ==
    IF s = << >> THEN <<"0">>
    ELSE IF Len(s) > 1 /\ s[1] = "0" THEN StripZeros(Tail(s))
    ELSE s

\* n copies of the character c
Repeat(c, n) == [i \in 1..n |-> c]

RemoveChars(s, S) == SelectSeq(s, LAMBDA c : c \notin S)

\* str.replace(a, b) for single characters
ReplaceChar(s, a, b) == [i \in 1..Len(s) |-> IF s[i] = a THEN b ELSE s[i]]

\* the first position of s that holds a character of S, Len(s) + 1 if none
IndexOf(s, S) == SetMin({i \in 1..Len(s) : s[i] \in S} \cup {Len(s) + 1})

\* s cut at the first character of S
SplitAt(s, S) ==
    [before |-> SubSeq(s, 1, IndexOf(s, S) - 1),
     found |-> IndexOf(s, S) <= Len(s),
     after |-> SubSeq(s, IndexOf(s, S) + 1, Len(s))]

\* an optional sign, and what follows it
Signed(s) ==
    [neg |-> s /= << >> /\ s[1] = "-",
     body |-> IF s /= << >> /\ s[1] \in {"-", "+"} THEN Tail(s) ELSE s]

\* Decimal(...) raised InvalidOperation
InvalidDecimal == [valid |-> FALSE, neg |-> FALSE, int |-> <<"0">>, exp |-> 0]

\* a Decimal: sign, coefficient (a string of digits, as the class keeps it)
\* and exponent.  m: the mantissa cut at the point; ex: the signed exponent
DecimalParts(neg, m, hasExp, ex) ==
    IF /\ AllDigits(m.before) /\ AllDigits(m.after)
       /\ (m.before /= << >> \/ m.after /= << >>)
       /\ (hasExp => ex.body /= << >> /\ AllDigits(ex.body))
    THEN [valid |-> TRUE, neg |-> neg,
          int |-> StripZeros(m.before \o m.after),
          exp |-> (IF ~hasExp THEN 0
                   ELSE IF ex.neg THEN 0 - ToInt(ex.body) ELSE ToInt(ex.body))
                  - Len(m.after)]
    ELSE InvalidDecimal

DecimalExp(neg, me) ==
    DecimalParts(neg, SplitAt(me.before, {"."}), me.found, Signed(me.after))

DecimalSigned(sg) == DecimalExp(sg.neg, SplitAt(sg.body, {"e", "E"}))

\* decimal.Decimal(s) for a string: [sign] digits [. digits] [E [sign] digits];
\* surrounding whitespace and underscores are dropped first
py_Decimal(s) == DecimalSigned(Signed(RemoveChars(strip(s), {"_"})))

\* "%+d" % n
SignedInt(n) == IF n < 0 THEN <<"-">> \o FromNat(0 - n) ELSE <<"+">> \o FromNat(n)

\* the digits with the point after `dotplace` of them, and the exponent suffix
DecimalDigits(int, leftdigits, dotplace) ==
    (IF dotplace <= 0 THEN <<"0", ".">> \o Repeat("0", 0 - dotplace) \o int
     ELSE IF dotplace >= Len(int) THEN int \o Repeat("0", dotplace - Len(int))
     ELSE SubSeq(int, 1, dotplace) \o <<".">> \o SubSeq(int, dotplace + 1, Len(int)))
    \o (IF leftdigits = dotplace THEN << >> ELSE <<"E">> \o SignedInt(leftdigits - dotplace))

\* Decimal.__str__: plain notation when exp <= 0 and more than -6 digits lie
\* left of the point, scientific notation otherwise
decimal_str(d) ==
    (IF d.neg THEN <<"-">> ELSE << >>)
    \o DecimalDigits(d.int, d.exp + Len(d.int),
                     IF d.exp <= 0 /\ d.exp + Len(d.int) > -6 THEN d.exp + Len(d.int) ELSE 1)

\* the characters re.sub(r'[PLN\sZL-stroke]+', '', ..., re.IGNORECASE) removes
CurrencyChars == {"P", "L", "N", "Z", "L_STROKE", "p", "l", "n", "z", "l_stroke"}

_parse_amount_keeping_spaces(amount_str) ==
    py_Decimal(ReplaceChar(RemoveChars(strip(amount_str), CurrencyChars), ",", "."))

\* _parse_amount: valid = FALSE stands for None
_parse_amount(amount_str) ==
    py_Decimal(ReplaceChar(RemoveChars(strip(amount_str), CurrencyChars \cup Whitespace),
                           ",", "."))

\* ----------------------------------------------------------------- _parse_date

\* the formats of _parse_date, in the order tried: the separator and whether
\* the year comes first
date_formats ==
    << [sep |-> "-", yearFirst |-> TRUE],
       [sep |-> "-", yearFirst |-> FALSE],
       [sep |-> ".", yearFirst |-> FALSE],
       [sep |-> "/", yearFirst |-> FALSE],
       [sep |-> ".", yearFirst |-> TRUE] >>

\* the three fields of s around two separators, << >> unless there are two
FieldsAround(s, ps) ==
    IF Cardinality(ps) /= 2 THEN << >>
    ELSE << SubSeq(s, 1, SetMin(ps) - 1),
            SubSeq(s, SetMin(ps) + 1, (CHOOSE p \in ps : p /= SetMin(ps)) - 1),
            SubSeq(s, (CHOOSE p \in ps : p /= SetMin(ps)) + 1, Len(s)) >>

DateFields(s, sep) == FieldsAround(s, {i \in 1..Len(s) : s[i] = sep})

\* %Y: four digits
IsYearField(p) == Len(p) = 4 /\ AllDigits(p)

\* %m: 1[0-2]|0[1-9]|[1-9]
IsMonthField(p) ==
    /\ Len(p) \in {1, 2} /\ AllDigits(p)
    /\ ToInt(p) \in 1..12

\* %d: 3[0-1]|[1-2]\d|0[1-9]|[1-9]| [1-9]
IsDayField(p) ==
    \/ Len(p) \in {1, 2} /\ AllDigits(p) /\ ToInt(p) \in 1..31
    \/ Len(p) = 2 /\ p[1] = " " /\ p[2] \in Digits \ {"0"}

DayValue(p) == ToInt(RemoveChars(p, {" "}))

IsLeap(y) == (y % 4 = 0 /\ y % 100 /= 0) \/ y % 400 = 0

DaysInMonth(y, m) ==
    IF m = 2 THEN (IF IsLeap(y) THEN 29 ELSE 28)
    ELSE IF m \in {4, 6, 9, 11} THEN 30 ELSE 31

\* n as at least w digits
ZeroPad(n, w) == Repeat("0", w - Len(FromNat(n))) \o FromNat(n)

\* date.isoformat()
isoformat(y, m, d) == ZeroPad(y, 4) \o <<"-">> \o ZeroPad(m, 2) \o <<"-">> \o ZeroPad(d, 2)

\* datetime.strptime(...).date().isoformat() for the fields in the order
\* year, month, day; << >> stands for ValueError
DateOf(yf, mf, df) ==
    IF /\ IsYearField(yf) /\ IsMonthField(mf) /\ IsDayField(df)
       /\ ToInt(yf) >= 1
       /\ DayValue(df) <= DaysInMonth(ToInt(yf), ToInt(mf))
    THEN isoformat(ToInt(yf), ToInt(mf), DayValue(df))
    ELSE << >>

strptime_fields(fs, yearFirst) ==
    IF fs = << >> THEN << >>
    ELSE IF yearFirst THEN DateOf(fs[1], fs[2], fs[3])
    ELSE DateOf(fs[3], fs[2], fs[1])

strptime_iso(s, fmt) == strptime_fields(DateFields(s, fmt.sep), fmt.yearFirst)

\* for fmt in formats: the first format that parses decides
RECURSIVE try_formats(_, _)
try_formats(s, k) ==
    IF k > Len(date_formats) THEN << >>
    ELSE IF strptime_iso(s, date_formats[k]) /= << >> THEN strptime_iso(s, date_formats[k])
    ELSE try_formats(s, k + 1)

_parse_date(date_str) == try_formats(strip(date_str), 1)

\* ================================================================== parse_csv
\* csv.reader (dialect excel: quote character ", doubled quotes, not strict)
\* over io.StringIO(text), csv.DictReader, and bank_import.parse_csv.
\* The text is the decoded content of the file.

SetMax(S) == CHOOSE x \in S : \A y \in S : y <= x

EOL == "EOL"

LineBreaks == {"\n", "\r"}

\* parse_save_field
SaveField(st, state) ==
    [state |-> state, field |-> << >>, fields |-> Append(st.fields, st.field)]

\* parse_add_char
AddChar(st, c, state) ==
    [state |-> state, field |-> Append(st.field, c), fields |-> st.fields]

MoveTo(st, state) == [state |-> state, field |-> st.field, fields |-> st.fields]

\* where the reader goes at the end of an unquoted field
AfterBreak(c) == IF c = EOL THEN "START_RECORD" ELSE "EAT_CRNL"

\* parse_process_char of Modules/_csv.c; EOL is the end-of-line signal the
\* reader sends after the last character of each line
csv_step(st, c, delim) ==
    CASE st.state \in {"START_RECORD", "START_FIELD"} ->
            IF st.state = "START_RECORD" /\ c = EOL THEN st
            ELSE IF st.state = "START_RECORD" /\ c \in LineBreaks THEN MoveTo(st, "EAT_CRNL")
            ELSE IF c \in LineBreaks \cup {EOL} THEN SaveField(st, AfterBreak(c))
            ELSE IF c = "\"" THEN MoveTo(st, "IN_QUOTED_FIELD")
            ELSE IF c = delim THEN SaveField(st, "START_FIELD")
            ELSE AddChar(st, c, "IN_FIELD")
      [] st.state = "IN_FIELD" ->
            IF c \in LineBreaks \cup {EOL} THEN SaveField(st, AfterBreak(c))
            ELSE IF c = delim THEN SaveField(st, "START_FIELD")
            ELSE AddChar(st, c, "IN_FIELD")
      [] st.state = "IN_QUOTED_FIELD" ->
            IF c = EOL THEN st
            ELSE IF c = "\"" THEN MoveTo(st, "QUOTE_IN_QUOTED_FIELD")
            ELSE AddChar(st, c, "IN_QUOTED_FIELD")
      [] st.state = "QUOTE_IN_QUOTED_FIELD" ->
            IF c = "\"" THEN AddChar(st, c, "IN_QUOTED_FIELD")
            ELSE IF c = delim THEN SaveField(st, "START_FIELD")
            ELSE IF c \in LineBreaks \cup {EOL} THEN SaveField(st, AfterBreak(c))
            ELSE AddChar(st, c, "IN_FIELD")
      [] st.state = "EAT_CRNL" ->
            IF c \in LineBreaks THEN st
            ELSE IF c = EOL THEN MoveTo(st, "START_RECORD")
            ELSE MoveTo(st, "ERROR")
      [] OTHER -> st

\* what next(reader) gives: a row, csv.Error, or StopIteration; next is the
\* position of the first line the reader has not fetched
CsvRow(fields, next) == [kind |-> "row", fields |-> fields, next |-> next]

CsvError(next) == [kind |-> "error", fields |-> << >>, next |-> next]

CsvStop(next) == [kind |-> "stop", fields |-> << >>, next |-> next]

\* the position after the line that holds position i
NextLine(text, i) == SetMin({k \in i..Len(text) : text[k] = "\n"} \cup {Len(text)}) + 1

\* the input ended; a record that is still open is returned as it stands
csv_eof(text, st) ==
    IF st.state = "START_RECORD" THEN CsvRow(st.fields, Len(text) + 1)
    ELSE CsvRow(Append(st.fields, st.field), Len(text) + 1)

RECURSIVE csv_scan(_, _, _, _)

\* st: the state after the end-of-line signal of the line that ends at i
csv_line_end(text, i, st, delim) ==
    IF st.state = "START_RECORD" THEN CsvRow(st.fields, i + 1)
    ELSE csv_scan(text, i + 1, st, delim)

\* st: the state after the character at i
csv_after(text, i, st, delim) ==
    IF st.state = "ERROR" THEN CsvError(NextLine(text, i))
    ELSE IF text[i] = "\n" THEN csv_line_end(text, i, csv_step(st, EOL, delim), delim)
    ELSE csv_scan(text, i + 1, st, delim)

csv_scan(text, i, st, delim) ==
    IF i > Len(text) THEN csv_eof(text, csv_step(st, EOL, delim))
    ELSE csv_after(text, i, csv_step(st, text[i], delim), delim)

\* next(reader) with the reader at position i
csv_next(text, i, delim) ==
    IF i > Len(text) THEN CsvStop(i)
    ELSE csv_scan(text, i, [state |-> "START_RECORD", field |-> << >>, fields |-> << >>], delim)

\* for delimiter in [';', ',', '\t']
delimiters == <<";", ",", "\t">>

\* a DictReader: has_names is FALSE while _fieldnames is None
DictReader(delim, accepted, first) ==
    [delimiter |-> delim, accepted |-> accepted,
     has_names |-> first.kind = "row", fieldnames |-> first.fields,
     pos |-> first.next]

\* first: what reader.fieldnames got from next(self.reader).  The loop breaks
\* at the first delimiter that gives more than one field name; csv.Error is
\* swallowed; after the last delimiter the last reader is used as it is
RECURSIVE try_delimiters(_, _)

try_delimiter(text, k, first) ==
    IF first.kind = "row" /\ Len(first.fields) > 1
    THEN DictReader(delimiters[k], TRUE, first)
    ELSE IF k < Len(delimiters) THEN try_delimiters(text, k + 1)
    ELSE DictReader(delimiters[k], FALSE, first)

try_delimiters(text, k) == try_delimiter(text, k, csv_next(text, 1, delimiters[k]))

date_columns == << <<"D", "a", "t", "a", " ", "o", "p", "e", "r", "a", "c", "j", "i">>, <<"D", "a", "t", "a", " ", "k", "s", "i", "e_ogonek", "g", "o", "w", "a", "n", "i", "a">>, <<"D", "a", "t", "a">>, <<"D", "a", "t", "a", " ", "w", "a", "l", "u", "t", "y">> >>

amount_columns == << <<"K", "w", "o", "t", "a">>, <<"K", "w", "o", "t", "a", " ", "o", "p", "e", "r", "a", "c", "j", "i">>, <<"W", "a", "r", "t", "o", "s_acute", "c_acute">> >>

description_columns == << <<"O", "p", "i", "s", " ", "o", "p", "e", "r", "a", "c", "j", "i">>, <<"T", "y", "t", "u", "l_stroke">>, <<"S", "z", "c", "z", "e", "g", "o_acute", "l_stroke", "y">>, <<"O", "p", "i", "s">> >>

counterparty_columns == << <<"N", "a", "d", "a", "w", "c", "a", "/", "O", "d", "b", "i", "o", "r", "c", "a">>, <<"K", "o", "n", "t", "r", "a", "h", "e", "n", "t">>, <<"N", "a", "z", "w", "a", " ", "k", "o", "n", "t", "r", "a", "h", "e", "n", "t", "a">> >>

reference_columns == << <<"N", "u", "m", "e", "r", " ", "r", "e", "f", "e", "r", "e", "n", "c", "y", "j", "n", "y">>, <<"R", "e", "f", "e", "r", "e", "n", "c", "j", "a">>, <<"N", "r", " ", "r", "e", "f", "e", "r", "e", "n", "c", "y", "j", "n", "y">> >>

\* row[col] of dict(zip(fieldnames, row)) with restval None: the last column
\* of that name decides; << >> stands for a missing, None or empty value
Cell(names, fields, ks) ==
    IF ks = {} THEN << >>
    ELSE IF SetMax(ks) <= Len(fields) THEN fields[SetMax(ks)]
    ELSE << >>

row_get(names, fields, col) == Cell(names, fields, {k \in 1..Len(names) : names[k] = col})

RECURSIVE find_column(_, _, _, _)
find_column(names, fields, column_names, k) ==
    IF k > Len(column_names) THEN << >>
    ELSE IF row_get(names, fields, column_names[k]) /= << >>
         THEN strip(row_get(names, fields, column_names[k]))
    ELSE find_column(names, fields, column_names, k + 1)

\* _find_column_value(row, column_names)
_find_column_value(names, fields, column_names) == find_column(names, fields, column_names, 1)

\* the row is skipped
NoTx == << >>

\* transactions.append({...})
CsvTx(parsed_date, parsed_amount, description, counterparty, reference) ==
    << [date |-> parsed_date,
        amount |-> decimal_str(parsed_amount),
        description |-> _clean_description(description),
        counterparty |-> counterparty,
        bank_reference |-> reference,
        import_source |-> "csv"] >>

\* the checks of the loop body on the parsed date and amount
row_parsed(parsed_date, parsed_amount, description, counterparty, reference) ==
    IF parsed_date = << >> THEN NoTx
    ELSE IF ~parsed_amount.valid THEN NoTx
    ELSE CsvTx(parsed_date, parsed_amount, description, counterparty, reference)

\* the checks of the loop body on the two mandatory values
row_values(tx_date, amount, description, counterparty, reference) ==
    IF tx_date = << >> \/ amount = << >> THEN NoTx
    ELSE row_parsed(_parse_date(tx_date), _parse_amount(amount),
                    description, counterparty, reference)

\* the body of `for row in reader`: the transactions the row adds
row_tx(names, fields) ==
    row_values(_find_column_value(names, fields, date_columns),
               _find_column_value(names, fields, amount_columns),
               _find_column_value(names, fields, description_columns),
               _find_column_value(names, fields, counterparty_columns),
               _find_column_value(names, fields, reference_columns))

\* parse_csv returned the list / raised ValueError
Parsed(txs) == [raised |-> FALSE, transactions |-> txs]

ParseError == [raised |-> TRUE, transactions |-> << >>]

RECURSIVE read_rows(_, _, _, _, _)

\* r: what next(self.reader) gave; DictReader skips the rows that are []
read_row(text, names, delim, acc, r) ==
    IF r.kind = "stop" THEN Parsed(acc)
    ELSE IF r.kind = "error" THEN ParseError
    ELSE IF r.fields = << >> THEN read_rows(text, r.next, names, delim, acc)
    ELSE read_rows(text, r.next, names, delim, acc \o row_tx(names, r.fields))

\* for row in reader
read_rows(text, pos, names, delim, acc) ==
    read_row(text, names, delim, acc, csv_next(text, pos, delim))

\* first: what the late fetch of the field names gave
rows_after_names(text, delim, first) ==
    IF first.kind = "stop" THEN Parsed(<< >>)
    ELSE IF first.kind = "error" THEN ParseError
    ELSE read_rows(text, first.next, first.fields, delim, << >>)

\* DictReader.__next__ fetches the field names first when it has none
reader_rows(text, reader) ==
    IF reader.has_names
    THEN read_rows(text, reader.pos, reader.fieldnames, reader.delimiter, << >>)
    ELSE rows_after_names(text, reader.delimiter,
                          csv_next(text, reader.pos, reader.delimiter))

parse_csv(text) == reader_rows(text, try_delimiters(text, 1))

\* ------------------------------------------------- specification: parse_csv

MaxRows == 2

\* header lines: the usual export, the same with commas and with tabs, a file
\* of another kind, a comma file with a semicolon in a column name, one column
CsvHeaders ==
    { <<"D", "a", "t", "a", ";", "K", "w", "o", "t", "a", ";", "O", "p", "i", "s">>, <<"D", "a", "t", "a", ",", "K", "w", "o", "t", "a", ",", "O", "p", "i", "s">>, <<"D", "a", "t", "a", "\t", "K", "w", "o", "t", "a">>,
      <<"f", "o", "o", ";", "b", "a", "r">>, <<"D","a","t","a",",","K","w","o","t","a",",","O","p","i","s",";","x">>, <<"D", "a", "t", "a">> }

\* data lines: good rows for each delimiter, rows without a date, with a date
\* or an amount that does not parse, a row with a carriage return inside, a
\* row with an unclosed quote, a blank line, a line of a CRLF file
CsvRows ==
    { <<"2", "0", "2", "5", "-", "0", "3", "-", "1", "5", ";", "1", "0", "0", ",", "0", "0", ";", "s", "k", "l", "a", "d", "k", "a", " ", "n", "r", " ", "5">>, <<"1", "5", ".", "0", "3", ".", "2", "0", "2", "5", ";", "1", " ", "2", "3", "4", ",", "5", "6", ";", "/", "I", "D", "/", " ", "x">>,
      <<"2", "0", "2", "5", "-", "0", "3", "-", "1", "6", ",", "5", "0", ",", "a">>, <<"2", "0", "2", "5", "-", "0", "3", "-", "1", "7", "\t", "7">>,
      <<";", "5">>, <<"2", "0", "2", "5", "-", "0", "2", "-", "3", "0", ";", "5">>, <<"2", "0", "2", "5", "-", "0", "3", "-", "1", "5", ";", "a", "b", "c">>,
      <<"a", "b", "\r", "c", ";", "1">>, <<"\"", "a", "b", "c", ";", "1">>, << >>, <<"2", "0", "2", "5", "-", "0", "3", "-", "1", "8", ";", "5", "\r">> }

\* the text of a file: every line ends with a newline
RECURSIVE JoinLines(_)
JoinLines(lines) ==
    IF lines = << >> THEN << >> ELSE Head(lines) \o <<"\n">> \o JoinLines(Tail(lines))

FileText(header, rows) == JoinLines(<<header>> \o rows)

CsvFile(header, rows) == [header |-> header, rows |-> rows, text |-> FileText(header, rows)]

CsvFiles ==
    {CsvFile(h, rows) : h \in CsvHeaders, rows \in UNION {[1..k -> CsvRows] : k \in 0..MaxRows}}

InitCsv ==
    /\ arg \in CsvFiles
    /\ ret = << >>
    /\ db = << >>
    /\ pc = "ready"
    /\ IdleMatch

\* parse_csv(content) returns or raises
ParseCsv ==
    /\ pc = "ready"
    /\ ret' = parse_csv(arg.text)
    /\ pc' = "done"
    /\ UNCHANGED <<arg, db>>
    /\ UNCHANGED matchVars

NextCsv == ParseCsv

SpecCsv == InitCsv /\ [][NextCsv]_vars

\* ------------------------------------------------------- claims C12, C13, C14

\* a header name of the known date, amount, description, counterparty or
\* reference lists
KnownColumns ==
    {date_columns[k] : k \in 1..Len(date_columns)}
    \cup {amount_columns[k] : k \in 1..Len(amount_columns)}
    \cup {description_columns[k] : k \in 1..Len(description_columns)}
    \cup {counterparty_columns[k] : k \in 1..Len(counterparty_columns)}
    \cup {reference_columns[k] : k \in 1..Len(reference_columns)}

\* the fields of the header line under the k-th delimiter
HeaderFields(text, k) == csv_next(text, 1, delimiters[k]).fields

\* how many of them are recognized column headers
RecognizedCount(text, k) ==
    Cardinality({j \in 1..Len(HeaderFields(text, k)) : HeaderFields(text, k)[j] \in KnownColumns})

\* C12: parse_csv on a file in which no tried delimiter yields any recognized
\* column header fails with a parse error; it never returns a list.
C12_NoKnownHeaderIsError ==
    (pc = "done" /\ \A k \in 1..Len(delimiters) : RecognizedCount(arg.text, k) = 0)
        => ret.raised

\* what the rows give when each is parsed in a file of its own under the header
RECURSIVE EachRowAlone(_, _)
EachRowAlone(header, rows) ==
    IF rows = << >> THEN << >>
    ELSE parse_csv(FileText(header, <<Head(rows)>>)).transactions
         \o EachRowAlone(header, Tail(rows))

\* C13: parse_csv handles rows independently: it returns, in file order, the
\* transaction of each row that has a parsable date and amount (at most one
\* per row), skips the other rows without an error, and a bad row changes
\* nothing about what the other rows give.
C13_RowsIndependent ==
    pc = "done" =>
        /\ ~ret.raised
        /\ ret.transactions = EachRowAlone(arg.header, arg.rows)
        /\ \A i \in 1..Len(arg.rows) : Len(EachRowAlone(arg.header, <<arg.rows[i]>>)) <= 1

\* the delimiters under which the header has more than one recognized column
GoodDelimiters(text) == {k \in 1..Len(delimiters) : RecognizedCount(text, k) > 1}

\* C14: parse_csv reads the file with the first delimiter, in the order
\* semicolon, comma, tab, under which the header splits into more than one
\* recognized column header; no other delimiter is accepted.
C14_FirstRecognizingDelimiter ==
    pc = "done" =>
        /\ GoodDelimiters(arg.text) /= {} =>
              try_delimiters(arg.text, 1).delimiter = delimiters[SetMin(GoodDelimiters(arg.text))]
        /\ try_delimiters(arg.text, 1).accepted =>
              \E k \in GoodDelimiters(arg.text) :
                  try_delimiters(arg.text, 1).delimiter = delimiters[k]

\* ------------------------------------- specification: amounts in parse_csv

MaxGroups == 2

\* an amount in the Polish notation: a sign, groups of digits separated by
\* spaces (the first of one to three digits, the others of three), a comma
\* and the decimals
FirstGroups == {<<"1">>, <<"1", "2">>, <<"1", "2", "3">>}
OtherGroups == {<<"2", "3", "4">>, <<"0", "0", "0">>}
DecimalGroups == {<<"5", "6">>, <<"0", "0">>, <<"5">>}

PolishAmounts ==
    {[sign |-> s, groups |-> <<f>> \o g, decimals |-> d] :
        s \in {<< >>, <<"-">>, <<"+">>}, f \in FirstGroups,
        g \in UNION {[1..k -> OtherGroups] : k \in 0..(MaxGroups - 1)},
        d \in DecimalGroups}
    \cup {[sign |-> s, groups |-> <<<<"0">>>>, decimals |-> d] :
        s \in {<< >>, <<"-">>}, d \in DecimalGroups}

RECURSIVE JoinWith(_, _)
JoinWith(groups, sep) ==
    IF Len(groups) = 1 THEN groups[1]
    ELSE groups[1] \o sep \o JoinWith(Tail(groups), sep)

\* "1 234,56"
PolishText(a) == a.sign \o JoinWith(a.groups, <<" ">>) \o <<",">> \o a.decimals

\* how the field stands in the row: the delimiter of the file, whether the
\* field is quoted (it must be where the delimiter is the comma), and what
\* surrounds the number inside the field
FieldStyles ==
    {st \in [delimiter : {";", ",", "\t"}, quoted : BOOLEAN,
             before : {<< >>, <<" ">>}, after : {<< >>, <<" ", "P", "L", "N">>}] :
        st.delimiter = "," => st.quoted}

AmountField(a, st) ==
    IF st.quoted THEN <<"\"">> \o st.before \o PolishText(a) \o st.after \o <<"\"">>
    ELSE st.before \o PolishText(a) \o st.after

AmountRow(a, st) ==
    <<"1", "5", ".", "0", "3", ".", "2", "0", "2", "5">> \o <<st.delimiter>> \o AmountField(a, st) \o <<st.delimiter>> \o <<"s", "k", "l", "a", "d", "k", "a">>

PlainRow(st) == <<"2", "0", "2", "5", "-", "0", "3", "-", "1", "4">> \o <<st.delimiter>> \o <<"5">> \o <<st.delimiter>> \o <<"x">>

AmountHeader(st) == <<"D", "a", "t", "a">> \o <<st.delimiter>> \o <<"K", "w", "o", "t", "a">> \o <<st.delimiter>> \o <<"O", "p", "i", "s">>

\* the row stands alone, before another row, or after one
AmountRows(a, st, at) ==
    IF at = 0 THEN <<AmountRow(a, st)>>
    ELSE IF at = 1 THEN <<AmountRow(a, st), PlainRow(st)>>
    ELSE <<PlainRow(st), AmountRow(a, st)>>

AmountFile(a, st, at) ==
    [amount |-> a, style |-> st, at |-> IF at = 0 THEN 1 ELSE at,
     rows |-> Len(AmountRows(a, st, at)),
     text |-> FileText(AmountHeader(st), AmountRows(a, st, at))]

InitAmounts ==
    /\ arg \in {AmountFile(a, st, at) : a \in PolishAmounts, st \in FieldStyles, at \in 0..2}
    /\ ret = << >>
    /\ db = << >>
    /\ pc = "ready"
    /\ IdleMatch

\* parse_csv(content) returns or raises
ParseAmounts ==
    /\ pc = "ready"
    /\ ret' = parse_csv(arg.text)
    /\ pc' = "done"
    /\ UNCHANGED <<arg, db>>
    /\ UNCHANGED matchVars

NextAmounts == ParseAmounts

SpecAmounts == InitAmounts /\ [][NextAmounts]_vars

\* ------------------------------------------------------------------ claim C18

\* the decimal value written plainly: "-1234.56"
PlainDecimal(a) ==
    (IF a.sign = <<"-">> THEN <<"-">> ELSE << >>) \o JoinWith(a.groups, << >>) \o <<".">> \o a.decimals

\* C18: for every row whose amount field is written with spaces as thousands
\* separators and a comma as decimal mark, optionally signed, parse_csv emits
\* the transaction of that row with exactly that decimal value: every digit
\* kept, nothing rounded.
C18_PolishAmountExact ==
    pc = "done" =>
        /\ ~ret.raised
        /\ Len(ret.transactions) = arg.rows
        /\ ret.transactions[arg.at].amount = PlainDecimal(arg.amount)

C18_Witness ==
    /\ pc = "done"
    /\ arg.amount = [sign |-> <<"-">>, groups |-> <<<<"1">>, <<"2", "3", "4">>>>, decimals |-> <<"5", "6">>]
    /\ arg.style.delimiter = ";"
    /\ ~ret.raised
    /\ ret.transactions[arg.at].amount = <<"-", "1", "2", "3", "4", ".", "5", "6">>

\* -------------------------------------------------------- _extract_counterparty

\* the patterns of _extract_counterparty: a literal, \s* after it or not, a
\* lazy group (.+?) and what ends the group besides the end of the text
patterns ==
    << [literal |-> <<"/", "o", "r", "d", "/">>, spaces |-> FALSE, stop |-> {"/"}],
       [literal |-> <<"/", "b", "n", "f", "/">>, spaces |-> FALSE, stop |-> {"/"}],
       [literal |-> <<"o", "d", ":">>, spaces |-> TRUE, stop |-> Whitespace],
       [literal |-> <<"n", "a", " ", "r", "z", "e", "c", "z", ":">>, spaces |-> TRUE, stop |-> Whitespace] >>

\* $ matches at the end of the text and before a newline that ends it
AtDollar(text, p) == p = Len(text) + 1 \/ (p = Len(text) /\ text[p] = "\n")

\* the lengths n of a group at p that (.+?)(?:stop|$) can match: . matches
\* every character but the newline
GroupLengths(text, p, stop) ==
    {n \in 1..(Len(text) - p + 1) :
        /\ \A k \in p..(p + n - 1) : text[k] /= "\n"
        /\ AtDollar(text, p + n) \/ (p + n <= Len(text) /\ text[p + n] \in stop)}

\* where the group may begin after a literal that ends before p: \s* is
\* greedy and gives back, so the farthest beginning that lets the rest match
GroupStarts(text, p, pat) ==
    {q \in p..(IF pat.spaces THEN RunEnd(text, p, Whitespace) ELSE p) :
        GroupLengths(text, q, pat.stop) /= {}}

\* the pattern matches with its literal at position i
MatchesAt(text, i, pat) ==
    /\ StartsWithAt(lower(text), i, pat.literal)
    /\ GroupStarts(text, i + Len(pat.literal), pat) /= {}

GroupFrom(text, q, stop) == SubSeq(text, q, q + SetMin(GroupLengths(text, q, stop)) - 1)

\* match.group(1) of the match whose literal is at i
GroupAt(text, i, pat) ==
    GroupFrom(text, SetMax(GroupStarts(text, i + Len(pat.literal), pat)), pat.stop)

\* re.search(pattern, details, re.IGNORECASE): the leftmost match
search_group(pat, text) ==
    IF \E i \in 1..Len(text) : MatchesAt(text, i, pat)
    THEN [found |-> TRUE,
          group |-> GroupAt(text, SetMin({i \in 1..Len(text) : MatchesAt(text, i, pat)}), pat)]
    ELSE [found |-> FALSE, group |-> << >>]

\* for pattern in patterns: the group of the first pattern that matches
RECURSIVE first_pattern(_, _)
first_pattern(text, k) ==
    IF k > Len(patterns) THEN [found |-> FALSE, group |-> << >>]
    ELSE IF search_group(patterns[k], text).found THEN search_group(patterns[k], text)
    ELSE first_pattern(text, k + 1)

\* str.split('/')
RECURSIVE split_slash(_, _, _, _)
split_slash(s, i, part, out) ==
    IF i > Len(s) THEN Append(out, part)
    ELSE IF s[i] = "/" THEN split_slash(s, i + 1, << >>, Append(out, part))
    ELSE split_slash(s, i + 1, Append(part, s[i]), out)

LowerChars ==
    {LowerMap[c] : c \in DOMAIN LowerMap}
    \cup {"e_ogonek", "s_acute", "c_acute", "o_acute", "a_ogonek", "z_dot", "z_acute", "n_acute"}

\* str.isupper(): a cased character, and no lowercase one
isupper(s) ==
    /\ \E k \in 1..Len(s) : s[k] \in DOMAIN LowerMap
    /\ \A k \in 1..Len(s) : s[k] \notin LowerChars

MinPartLen == 5

\* for part in parts: the first stripped part longer than 5 that is not
\* all uppercase
RECURSIVE first_part(_, _)
first_part(parts, k) ==
    IF k > Len(parts) THEN << >>
    ELSE IF Len(strip(parts[k])) > MinPartLen /\ ~isupper(strip(parts[k])) THEN strip(parts[k])
    ELSE first_part(parts, k + 1)

_extract_counterparty(details) ==
    IF details = << >> THEN << >>
    ELSE IF first_pattern(details, 1).found THEN strip(first_pattern(details, 1).group)
    ELSE first_part(split_slash(details, 1, << >>, << >>), 1)

\* ------------------------------------------------------------------ parse_mt940

\* None where a text is expected
None == <<"None">>

\* dict.get(key, default): a dict is a function on the keys it has
dict_get(d, key, default) == IF key \in DOMAIN d THEN d[key] ELSE default

\* a or b for texts
py_or(a, b) == IF a /= << >> THEN a ELSE b

\* transaction.data.get('date', statement.data.get('date')), in ISO format
\* when it is a date (lines 39, 54-55)
record_date(statement, transaction) ==
    IF "date" \in DOMAIN transaction.data
    THEN isoformat(transaction.data.date.year, transaction.data.date.month,
                   transaction.data.date.day)
    ELSE IF "date" \in DOMAIN statement.data
    THEN isoformat(statement.data.date.year, statement.data.date.month,
                   statement.data.date.day)
    ELSE None

\* str(transaction.data.get('amount', Decimal('0'))): the library's amount
\* object prints as the text it carries
record_amount(transaction) ==
    IF "amount" \in DOMAIN transaction.data THEN transaction.data.amount.text
    ELSE decimal_str(py_Decimal(<<"0">>))

\* tx_data of one transaction of a statement
Mt940Tx(statement, transaction) ==
    [date |-> record_date(statement, transaction),
     amount |-> record_amount(transaction),
     description |-> _clean_description(
         py_or(dict_get(transaction.data, "transaction_details", << >>),
               dict_get(transaction.data, "extra_details", << >>))),
     counterparty |-> _extract_counterparty(
         dict_get(transaction.data, "transaction_details", << >>)),
     bank_reference |-> py_or(dict_get(transaction.data, "bank_reference", << >>),
                              dict_get(transaction.data, "customer_reference", << >>)),
     import_source |-> "mt940"]

\* for transaction in statement.transactions
statement_txs(statement) ==
    [i \in 1..Len(statement.transactions) |-> Mt940Tx(statement, statement.transactions[i])]

\* for statement in parsed
RECURSIVE statements_txs(_, _)
statements_txs(parsed, k) ==
    IF k > Len(parsed) THEN << >>
    ELSE statement_txs(parsed[k]) \o statements_txs(parsed, k + 1)

\* parse_mt940: what it does with what mt940.parse gives for the content
\* (the statements, or an exception)
parse_mt940(content) ==
    IF content.raises THEN [raised |-> TRUE, transactions |-> << >>]
    ELSE [raised |-> FALSE, transactions |-> statements_txs(content.statements, 1)]

\* ------------------------------------------------ specification: parse_mt940

MaxRecords == 2

\* the keys a transaction of the library may carry, each present or not
RecordDates == {<< >>, "date" :> [year |-> 2025, month |-> 3, day |-> 15]}
RecordAmounts == {<< >>, "amount" :> [text |-> <<"1", "5", "0", ".", "0", "0", " ", "P", "L", "N">>]}
RecordDetails ==
    {<< >>, "transaction_details" :> << >>,
     "transaction_details" :> <<"/", "O", "R", "D", "/", "J", "a", "n", " ", "K", "o", "w", "a", "l", "s", "k", "i", "/", "s", "k", "l", "a", "d", "k", "a", " ", "n", "r", " ", "5">>}
RecordExtras == {<< >>, "extra_details" :> <<"O", "D", ":", " ", "A", "n", "n", "a", " ", "N", "o", "w", "a", "k">>}
RecordReferences ==
    {"bank_reference" :> <<"R", "1">>,
     "bank_reference" :> << >> @@ "customer_reference" :> <<"C", "1">>}

Mt940Records ==
    {[data |-> d @@ a @@ t @@ e @@ r] :
        d \in RecordDates, a \in RecordAmounts, t \in RecordDetails,
        e \in RecordExtras, r \in RecordReferences}

StatementDates == {<< >>, "date" :> [year |-> 2025, month |-> 3, day |-> 1]}

Statements(n) ==
    {[data |-> d, transactions |-> txs] :
        d \in StatementDates, txs \in [1..n -> Mt940Records]}

\* one statement, or two that each have a transaction, with at most
\* MaxRecords transactions in all
Mt940Parses ==
    UNION {{<<s>> : s \in Statements(n)} : n \in 0..MaxRecords}
    \cup UNION {{<<s, t>> : s \in Statements(nm[1]), t \in Statements(nm[2])} :
                   nm \in {x \in (1..MaxRecords) \X (1..MaxRecords) : x[1] + x[2] <= MaxRecords}}

\* what mt940.parse gives: the statements, or an exception
Mt940Contents ==
    {[raises |-> FALSE, statements |-> p] : p \in Mt940Parses}
    \cup {[raises |-> TRUE, statements |-> << >>]}

InitMt940 ==
    /\ arg \in Mt940Contents
    /\ ret = << >>
    /\ db = << >>
    /\ pc = "ready"
    /\ IdleMatch

\* parse_mt940(content) returns or raises
ParseMt940 ==
    /\ pc = "ready"
    /\ ret' = parse_mt940(arg)
    /\ pc' = "done"
    /\ UNCHANGED <<arg, db>>
    /\ UNCHANGED matchVars

NextMt940 == ParseMt940

SpecMt940 == InitMt940 /\ [][NextMt940]_vars

\* ------------------------------------------------------------ claims C15, C16

\* the record has a date (its own or the one of its statement) and an amount
Complete(statement, transaction) ==
    /\ "date" \in DOMAIN transaction.data \/ "date" \in DOMAIN statement.data
    /\ "amount" \in DOMAIN transaction.data

\* the statements without the records that lack a date or an amount
OnlyComplete(parsed) ==
    [k \in 1..Len(parsed) |->
        [data |-> parsed[k].data,
         transactions |-> SelectSeq(parsed[k].transactions,
                                    LAMBDA t : Complete(parsed[k], t))]]

\* C15: parse_mt940 emits a transaction only for the records that have a
\* date and an amount: a record without one of them produces nothing (it
\* is not emitted with the amount 0 or without a date), and the other
\* records are emitted as if it were not there.
C15_OnlyCompleteRecords ==
    (pc = "done" /\ ~ret.raised) =>
        /\ ret.transactions = statements_txs(OnlyComplete(arg.statements), 1)
        /\ \A i \in 1..Len(ret.transactions) : ret.transactions[i].date /= None

\* the records of all statements, in order
RECURSIVE AllRecords(_, _)
AllRecords(parsed, k) ==
    IF k > Len(parsed) THEN << >>
    ELSE parsed[k].transactions \o AllRecords(parsed, k + 1)

\* the detail text of a record: the transaction details when they are not
\* empty, the extra details otherwise
DetailText(transaction) ==
    IF "transaction_details" \in DOMAIN transaction.data
       /\ transaction.data.transaction_details /= << >>
    THEN transaction.data.transaction_details
    ELSE IF "extra_details" \in DOMAIN transaction.data
    THEN transaction.data.extra_details
    ELSE << >>

\* C16: in every record parse_mt940 emits, description and counterparty come
\* from the same detail text: the description is that text cleaned, the
\* counterparty is extracted from that text, also when the text is the
\* extra details because there are no transaction details.
C16_SameDetailText ==
    (pc = "done" /\ ~ret.raised) =>
        /\ Len(ret.transactions) = Len(AllRecords(arg.statements, 1))
        /\ \A i \in 1..Len(ret.transactions) :
              /\ ret.transactions[i].description
                    = _clean_description(DetailText(AllRecords(arg.statements, 1)[i]))
              /\ ret.transactions[i].counterparty
                    = _extract_counterparty(DetailText(AllRecords(arg.statements, 1)[i]))

\* ----------------------------------------------------- the tables of the import

\* the Member and Fee tables: the first rows of MemberRows and FeeRows.  What
\* changes in them is kept in db: the status of each member, and status,
\* paid_date and transaction_id of each fee (0 and << >> stand for None)
MemberTable == SubSeq(MemberRows, 1, MaxMembers)
FeeTable == SubSeq(FeeRows, 1, MaxFees)

MemberIds == {MemberTable[i].id : i \in 1..Len(MemberTable)}
FeeIds == {FeeTable[i].id : i \in 1..Len(FeeTable)}

FeeState(status, paid_date, transaction_id) ==
    [status |-> status, paid_date |-> paid_date, transaction_id |-> transaction_id]

\* the orders in which a query without ORDER BY may return rows
Orders(rows) ==
    {RowsOf(rows, s) : s \in {t \in [1..Len(rows) -> 1..Len(rows)] :
                                 \A i, j \in 1..Len(rows) : i /= j => t[i] /= t[j]}}

\* Member.query.filter_by(status=MemberStatus.ACTIVE).all()
active_members(d) ==
    Orders(SelectSeq(MemberTable, LAMBDA m : d.members[m.id] = "active"))

\* Fee.query.filter(Fee.status.in_([PENDING, OVERDUE])).all()
pending_fee_rows(d) ==
    Orders(SelectSeq(FeeTable, LAMBDA f : d.fees[f.id].status \in {"pending", "overdue"}))

\* --------------------------------------------------------- import_bank_statement

Emax == 999999

RECURSIVE Pow10(_)
Pow10(n) == IF n <= 0 THEN 1 ELSE 10 * Pow10(n - 1)

\* the amount string of a parsed record as the literal the matching reads:
\* no decimal, a decimal beyond Emax, or a value in units of 0.001
literal_of(d) ==
    IF ~d.valid THEN [form |-> "text", v |-> 0]
    ELSE IF d.exp + Len(d.int) - 1 > Emax THEN [form |-> "exp", v |-> 1]
    ELSE [form |-> "plain",
          v |-> (IF d.neg THEN -1 ELSE 1)
                * (IF d.exp >= -3 THEN ToInt(d.int) * Pow10(d.exp + 3)
                   ELSE ToInt(d.int) \div Pow10(0 - d.exp - 3))]

amount_literal(amount) == literal_of(py_Decimal(amount))

\* the parsed records as match_transactions receives them
matcher_input(txs) ==
    [i \in 1..Len(txs) |-> [txs[i] EXCEPT !.amount = amount_literal(txs[i].amount)]]

\* the proposals as the response carries them: the amount is the string
\* of the parsed record
matcher_output(txs, matched_results) ==
    [i \in 1..Len(matched_results) |-> [matched_results[i] EXCEPT !.amount = txs[i].amount]]

\* check_write_permission()
check_write_permission(role) == role \in {"admin", "treasurer"}

\* str.endswith(suffixes)
endswith(name, suffixes) ==
    \E s \in suffixes :
        Len(s) <= Len(name) /\ SubSeq(name, Len(name) - Len(s) + 1, Len(name)) = s

mt940_suffixes == {<<".", "s", "t", "a">>, <<".", "m", "t", "9", "4", "0">>, <<".", "S", "T", "A">>}
csv_suffixes == {<<".", "c", "s", "v">>, <<".", "C", "S", "V">>}

detect_file_type_guessing(file_type, filename) ==
    IF file_type /= "auto" THEN file_type
    ELSE IF endswith(filename, mt940_suffixes) THEN "mt940"
    ELSE "csv"

\* file_type after the detection; "unknown" where the handler returns
detect_file_type(file_type, filename) ==
    IF file_type /= "auto" THEN file_type
    ELSE IF endswith(filename, mt940_suffixes) THEN "mt940"
    ELSE IF endswith(filename, csv_suffixes) THEN "csv"
    ELSE "unknown"

\* the parser the handler calls for a file type
parser_of(file_type) == IF file_type = "mt940" THEN "parse_mt940" ELSE "parse_csv"

\* a response that carries an error; calls: the parser and the matching, as
\* far as the handler came
ErrorResponse(status, error, calls) ==
    [status |-> status, error |-> error, transactions |-> << >>,
     total |-> 0, matched |-> 0, unmatched |-> 0, calls |-> calls]

has_fee_suggestion(t) == "suggested_fee_id" \in DOMAIN t /\ t.suggested_fee_id /= 0

\* t.get('suggested_member_id') is true
has_suggestion(t) == "suggested_member_id" \in DOMAIN t /\ t.suggested_member_id /= 0

count_matched(matched_results) ==
    Cardinality({i \in 1..Len(matched_results) : has_suggestion(matched_results[i])})

count_unmatched(matched_results) ==
    Cardinality({i \in 1..Len(matched_results) : ~has_suggestion(matched_results[i])})

\* jsonify({...}), 200
preview_response(matched_results, calls) ==
    [status |-> 200, error |-> "", transactions |-> matched_results,
     total |-> Len(matched_results), matched |-> count_matched(matched_results),
     unmatched |-> count_unmatched(matched_results), calls |-> calls]

\* after match_transactions: its exception is caught like the parser's
after_match(file_type, txs, m) ==
    IF m.raised
    THEN ErrorResponse(400, "Blad parsowania pliku",
                       <<parser_of(file_type), "match_transactions">>)
    ELSE preview_response(matcher_output(txs, m.results),
                          <<parser_of(file_type), "match_transactions">>)

\* after the parser
after_parse(file_type, parsed, ms, fees) ==
    IF parsed.raised
    THEN ErrorResponse(400, "Blad parsowania pliku", <<parser_of(file_type)>>)
    ELSE IF parsed.transactions = << >>
    THEN ErrorResponse(400, "Nie znaleziono transakcji w pliku", <<parser_of(file_type)>>)
    ELSE after_match(file_type, parsed.transactions,
                     match_transactions(matcher_input(parsed.transactions), ms, fees))

\* parse_mt940(content) or parse_csv(content)
parse_file(file_type, content) ==
    IF file_type = "mt940" THEN parse_mt940(content.mt940) ELSE parse_csv(content.text)

\* the try block, with the file type detected
import_typed(file_type, content, ms, fees) ==
    IF file_type = "unknown"
    THEN ErrorResponse(400, "Nieznany format pliku", << >>)
    ELSE after_parse(file_type, parse_file(file_type, content), ms, fees)

\* import_bank_statement: the response.  ms, fees: what the two queries give
import_bank_statement(request, ms, fees) ==
    IF ~check_write_permission(request.role)
    THEN ErrorResponse(403, "Brak uprawnien", << >>)
    ELSE IF ~request.has_file THEN ErrorResponse(400, "Brak pliku", << >>)
    ELSE IF request.filename = << >> THEN ErrorResponse(400, "Pusta nazwa pliku", << >>)
    ELSE import_typed(detect_file_type(request.type, request.filename),
                      request.content, ms, fees)

\* what the preview leaves in the database: the handler adds nothing to the
\* session and does not commit
preview_saving(d, response) ==
    [d EXCEPT !.transactions = d.transactions \o response.transactions]

preview_keeps(d, response) == d

\* ------------------------------------------------------------------ confirm_import

\* Transaction(...) for one entry of the request; amount: Decimal(str(...))
Transaction(id, tx_data, amount) ==
    [id |-> id, date |-> tx_data.date, amount |-> Abs(amount.v),
     type |-> IF amount.v > 0 THEN "income" ELSE "expense",
     category |-> IF amount.v > 0 THEN "fees" ELSE "other_expense",
     description |-> tx_data.description, counterparty |-> tx_data.counterparty,
     bank_reference |-> tx_data.bank_reference,
     matched_member_id |-> tx_data.member_id,
     match_confidence |-> tx_data.match_confidence,
     import_source |-> tx_data.import_source]

\* a lookup that finds no row
reference_never_exists(d, bank_reference) == FALSE

\* Transaction.query.filter_by(bank_reference=...).first() finds a row
reference_exists(d, bank_reference) ==
    \E i \in 1..Len(d.transactions) : d.transactions[i].bank_reference = bank_reference

\* fee.mark_as_paid(paid_date=transaction.date, transaction_id=transaction.id)
mark_as_paid(d, fee_id, paid_date, transaction_id) ==
    [d EXCEPT !.fees[fee_id] = FeeState("paid", paid_date, transaction_id)]

\* if tx_data.get('fee_id') and tx_data.get('member_id'): fee = Fee.query.get(...);
\* if fee: mark it as paid
confirm_fee(d, tx_data, transaction) ==
    IF tx_data.fee_id /= 0 /\ tx_data.member_id /= 0 /\ tx_data.fee_id \in FeeIds
    THEN mark_as_paid(d, tx_data.fee_id, transaction.date, transaction.id)
    ELSE d

\* db.session.add(transaction), and the fee
confirm_add(d, tx_data, transaction) ==
    confirm_fee([d EXCEPT !.transactions = Append(d.transactions, transaction)],
                tx_data, transaction)

ConfirmRaised == [raised |-> TRUE, db |-> << >>, created |-> 0, skipped |-> 0]

RECURSIVE confirm_loop(_, _, _, _, _)

\* one entry that is not skipped.  Decimal(...) raises on a string that is
\* no decimal, and the row cannot be stored when the amount is beyond the
\* column or when bank_reference, a unique column, repeats a stored value
\* (the empty string, which the duplicate test of the handler lets through)
confirm_entry(txs, i, d, created, skipped, amount) ==
    IF amount.raised \/ amount.huge \/ reference_exists(d, txs[i].bank_reference)
    THEN ConfirmRaised
    ELSE confirm_loop(txs, i + 1,
                      confirm_add(d, txs[i], Transaction(Len(d.transactions) + 1, txs[i], amount)),
                      created + 1, skipped)

\* for tx_data in transactions_data
confirm_loop(txs, i, d, created, skipped) ==
    IF i > Len(txs) THEN [raised |-> FALSE, db |-> d, created |-> created, skipped |-> skipped]
    ELSE IF txs[i].bank_reference /= << >> /\ reference_exists(d, txs[i].bank_reference)
    THEN confirm_loop(txs, i + 1, d, created, skipped + 1)
    ELSE confirm_entry(txs, i, d, created, skipped, Decimal(txs[i].amount))

\* the response and the database after the request: an exception leaves the
\* handler before db.session.commit(), nothing is stored
confirm_result(d, o) ==
    IF o.raised THEN [db |-> d, response |-> [status |-> 500, created |-> 0, skipped |-> 0]]
    ELSE [db |-> o.db,
          response |-> [status |-> 201, created |-> o.created, skipped |-> o.skipped]]

confirm_import(request, d) ==
    IF ~check_write_permission(request.role)
    THEN [db |-> d, response |-> [status |-> 403, created |-> 0, skipped |-> 0]]
    ELSE confirm_result(d, confirm_loop(request.transactions, 1, d, 0, 0))

\* ----------------------------------------------- specification: the import

MaxStored == 2

\* the uploaded files: the text of the file, and what mt940.parse makes of it
CsvContent(text) ==
    [text |-> text, mt940 |-> [raises |-> TRUE, statements |-> << >>]]

Mt940Content(text, recs) ==
    [text |-> text,
     mt940 |-> [raises |-> FALSE,
                statements |-> << [data |-> "date" :> [year |-> 2025, month |-> 3, day |-> 1],
                                   transactions |-> recs] >>]]

ImportContents ==
    { CsvContent(<<"D", "a", "t", "a", ";", "K", "w", "o", "t", "a", ";", "O", "p", "i", "s", "\n", "2", "0", "2", "5", "-", "0", "3", "-", "1", "5", ";", "1", "0", "0", ",", "0", "0", ";", "A", "d", "a", "m", " ", "9", " ", "n", "r", " ", "5", "\n", "1", "5", ".", "0", "3", ".", "2", "0", "2", "5", ";", "1", "0", "0", ",", "0", "0", ";", "N", "o", "w", "a", "k", "\n">>),
      CsvContent(<<"D", "a", "t", "a", ";", "K", "w", "o", "t", "a", ";", "O", "p", "i", "s", ";", "R", "e", "f", "e", "r", "e", "n", "c", "j", "a", "\n", "2", "0", "2", "5", "-", "0", "3", "-", "1", "5", ";", "-", "1", "0", "0", ",", "0", "0", ";", "N", "r", " ", "5", " ", "N", "o", "w", "a", "k", ";", "R", "1", "\n", "2", "0", "2", "5", "-", "0", "3", "-", "1", "6", ";", "1", "0", "0", ",", "0", "0", ";", "L", "i", ";", "R", "2", "\n">>),
      CsvContent(<<"f", "o", "o", ";", "b", "a", "r", "\n", "1", ";", "2", "\n">>),
      CsvContent(<<"D", "a", "t", "a", ";", "K", "w", "o", "t", "a", "\n", "a", "b", "\r", "c", ";", "1", "\n">>),
      Mt940Content(<<":", "2", "0", ":", "S", "\n", ":", "6", "1", ":", "2", "5", "0", "3", "1", "5", "0", "3", "1", "5", "C", "1", "0", "0", ",", "0", "0", "N", "T", "R", "F", "N", "O", "N", "R", "E", "F", "\n", ":", "8", "6", ":", "N", "r", " ", "5", "\n">>,
                   << [data |-> "amount" :> [text |-> <<"1", "0", "0", ".", "0", "0", " ", "P", "L", "N">>]
                                @@ "transaction_details" :> <<"N", "r", " ", "5">>] >>),
      Mt940Content(<<":", "2", "0", ":", "S", "\n", ":", "6", "1", ":", "\n", ":", "8", "6", ":", "N", "o", "w", "a", "k", "\n">>,
                   << [data |-> "transaction_details" :> <<"N", "o", "w", "a", "k">>] >>) }

ImportNames ==
    {<<"a", ".", "s", "t", "a">>, <<"a", ".", "m", "t", "9", "4", "0">>, <<"a", ".", "S", "T", "A">>, <<"a", ".", "c", "s", "v">>, <<"a", ".", "C", "S", "V">>, <<"a", ".", "t", "x", "t">>, <<"a", ".", "C", "s", "v">>, <<"c", "s", "v">>}

ImportRequest(role, has_file, filename, type, content) ==
    [role |-> role, has_file |-> has_file, filename |-> filename, type |-> type,
     content |-> content]

\* the requests: every name with the hint auto, the other hints with two
\* names, a request without the permission, one without a file, one whose
\* file has no name
ImportRequests ==
    {ImportRequest("treasurer", TRUE, n, "auto", c) : n \in ImportNames, c \in ImportContents}
    \cup {ImportRequest("treasurer", TRUE, n, t, c) :
             n \in {<<"a", ".", "c", "s", "v">>, <<"a", ".", "t", "x", "t">>}, t \in {"mt940", "csv", "xls"}, c \in ImportContents}
    \cup {ImportRequest(r, f, n, "auto", c) :
             r \in {"member"}, f \in {TRUE}, n \in {<<"a", ".", "c", "s", "v">>}, c \in ImportContents}
    \cup {ImportRequest("admin", f, n, "auto", c) :
             f \in BOOLEAN, n \in {<< >>, <<"a", ".", "c", "s", "v">>}, c \in ImportContents}

\* an entry of the confirm request
ConfirmEntry(date, v, form, description, bank_reference, member_id, fee_id, match_confidence) ==
    [date |-> date, amount |-> [form |-> form, v |-> v], description |-> description,
     counterparty |-> << >>, bank_reference |-> bank_reference, member_id |-> member_id,
     fee_id |-> fee_id, match_confidence |-> match_confidence, import_source |-> "csv"]

ConfirmEntries ==
    { ConfirmEntry("2025-03-15", 100000, "plain", <<"N", "r", " ", "5">>, <<"R", "1">>, 1, 11, "high"),
      ConfirmEntry("2025-03-15", 100000, "plain", <<"N", "o", "w", "a", "k">>, << >>, 0, 0, ""),
      ConfirmEntry("2025-03-16", -50000, "plain", <<"L", "i">>, <<"R", "2">>, 2, 11, "low"),
      ConfirmEntry("2025-03-17", 100010, "plain", <<"N", "r", " ", "5">>, << >>, 0, 12, ""),
      ConfirmEntry("2025-03-15", 0, "text", <<"N", "r", " ", "5">>, <<"R", "3">>, 0, 0, "") }

ConfirmRequests ==
    {[role |-> r, transactions |-> txs] :
        r \in {"treasurer"}, txs \in UNION {[1..k -> ConfirmEntries] : k \in 0..MaxStored}}
    \cup {[role |-> "member", transactions |-> <<e>>] : e \in ConfirmEntries}

\* the database before the upload: members active or not, fees pending,
\* overdue or paid, no transaction stored
Databases ==
    {[members |-> m, fees |-> f, transactions |-> << >>] :
        m \in [MemberIds -> {"active", "inactive"}],
        f \in [FeeIds -> {FeeState("pending", << >>, 0), FeeState("overdue", << >>, 0),
                          FeeState("paid", "2025-01-10", 0)}]}

InitImport ==
    /\ db \in Databases
    /\ arg = << >>
    /\ ret = << >>
    /\ pc = "ready"
    /\ IdleMatch

\* POST /import: the preview of one upload
Import ==
    /\ pc = "ready"
    /\ \E request \in ImportRequests :
          \E ms \in active_members(db) : \E fees \in pending_fee_rows(db) :
              /\ arg' = request
              /\ ret' = import_bank_statement(request, ms, fees)
              /\ db' = preview_keeps(db, import_bank_statement(request, ms, fees))
    /\ pc' = "previewed"
    /\ UNCHANGED matchVars

\* POST /import/confirm
Confirm ==
    /\ \E request \in ConfirmRequests :
          /\ Len(confirm_import(request, db).db.transactions) <= MaxStored
          /\ arg' = request
          /\ ret' = confirm_import(request, db).response
          /\ db' = confirm_import(request, db).db
    /\ pc' = "confirmed"
    /\ UNCHANGED matchVars

NextImport == Import \/ Confirm

SpecImport == InitImport /\ [][NextImport]_vars

\* ------------------------------------------------------- claims C11, C19, C20

\* the request reached the detection of the file type with the hint auto
AutoDetected ==
    /\ pc = "previewed"
    /\ check_write_permission(arg.role) /\ arg.has_file /\ arg.filename /= << >>
    /\ arg.type = "auto"

\* C19: with the hint auto the parser is chosen by the suffix of the file
\* name alone: a suffix of the structured set gives parse_mt940, a suffix of
\* the delimited set gives parse_csv, and a file with any other suffix is
\* rejected with an error before anything is parsed or matched.
C19_AutoBySuffix ==
    AutoDetected =>
        IF endswith(arg.filename, mt940_suffixes)
        THEN ret.calls /= << >> /\ ret.calls[1] = "parse_mt940"
        ELSE IF endswith(arg.filename, csv_suffixes)
        THEN ret.calls /= << >> /\ ret.calls[1] = "parse_csv"
        ELSE ret.status = 400 /\ ret.error = "Nieznany format pliku" /\ ret.calls = << >>

C19_Witness ==
    /\ AutoDetected
    /\ arg.filename = <<"a", ".", "t", "x", "t">>
    /\ arg.content.text[1] = "D"
    /\ ret.status = 400 /\ ret.calls = << >>

\* the proposals of the response that carry a suggested member
WithMember == {i \in 1..Len(ret.transactions) : "suggested_member_id" \in DOMAIN ret.transactions[i]}

\* C20: in every successful preview total is the number of proposals,
\* matched the number of proposals with a suggested member, unmatched the
\* number without one, and total = matched + unmatched.
C20_PreviewCounts ==
    (pc = "previewed" /\ ret.status = 200) =>
        /\ ret.total = Len(ret.transactions)
        /\ ret.matched = Cardinality(WithMember)
        /\ ret.unmatched = Cardinality((1..Len(ret.transactions)) \ WithMember)
        /\ ret.total = ret.matched + ret.unmatched

C20_Witness ==
    /\ pc = "previewed" /\ ret.status = 200
    /\ ret.matched = 1 /\ ret.unmatched = 1

\* C11: the preview never persists: a step of import_bank_statement leaves
\* the stored transactions and every fee (status, paid_date, transaction
\* link) as they were, whatever the file, the hint and the tiers of the
\* proposals; a transaction is created and a fee becomes paid only in a step
\* of confirm_import.
C11_PreviewNeverPersists ==
    [][/\ pc' = "previewed" =>
              /\ db'.transactions = db.transactions
              /\ \A f \in FeeIds : db'.fees[f] = db.fees[f]
       /\ (\/ Len(db'.transactions) > Len(db.transactions)
           \/ \E f \in FeeIds : db.fees[f].status /= "paid" /\ db'.fees[f].status = "paid")
              => pc' = "confirmed"]_vars

\* a preview with a proposal of the tier high and a suggested fee, after
\* which nothing is stored and the fee is still open
C11_Witness ==
    /\ pc = "previewed" /\ ret.status = 200
    /\ db.transactions = << >>
    /\ \E i \in 1..Len(ret.transactions) :
          /\ "suggested_fee_id" \in DOMAIN ret.transactions[i]
          /\ ret.transactions[i].match_confidence = "high"
          /\ db.fees[ret.transactions[i].suggested_fee_id].status \in {"pending", "overdue"}

\* ---------------------------------------------------------- should_auto_match

\* confidence values and the threshold are floats with one decimal, kept in
\* tenths: 0.9 is 9.  A key the MATCHING dict lacks is absent from the record.
default_confidence_levels == [high |-> 9, medium |-> 7, low |-> 5]

\* MATCHING of config/finance_config.py
MATCHING == [confidence_levels |-> default_confidence_levels, auto_match_threshold |-> 7]

\* get_match_confidence_value(confidence)
get_match_confidence_value(confidence, config) ==
    dict_get(dict_get(config, "confidence_levels", default_confidence_levels), confidence, 0)

should_auto_match_strict(confidence, config) ==
    get_match_confidence_value(confidence, config) > dict_get(config, "auto_match_threshold", 7)

\* should_auto_match(confidence)
should_auto_match(confidence, config) ==
    get_match_confidence_value(confidence, config) >= dict_get(config, "auto_match_threshold", 7)

\* ------------------------------------------- specification: should_auto_match

Tenths == {0, 5, 7, 9, 10}

\* the configurations: the shipped one, and tables over any tiers with any
\* threshold, either key present or not
LevelTables ==
    UNION {[T -> Tenths] : T \in SUBSET {"high", "medium", "low"}}

MatchingConfigs ==
    {MATCHING}
    \cup {("confidence_levels" :> t) @@ ("auto_match_threshold" :> h) : t \in LevelTables, h \in Tenths}
    \cup {"confidence_levels" :> t : t \in LevelTables}
    \cup {"auto_match_threshold" :> h : h \in Tenths}

\* the tiers asked about: those of the matcher, 'none', the empty string, an
\* unknown word
AskedTiers == {"high", "medium", "low", "none", "", "exact"}

InitAuto ==
    /\ arg \in [config : MatchingConfigs, confidence : AskedTiers]
    /\ ret = << >>
    /\ db = << >>
    /\ pc = "ready"
    /\ IdleMatch

ShouldAutoMatch ==
    /\ pc = "ready"
    /\ ret' = should_auto_match(arg.confidence, arg.config)
    /\ pc' = "done"
    /\ UNCHANGED <<arg, db>>
    /\ UNCHANGED matchVars

NextAuto == ShouldAutoMatch

SpecAuto == InitAuto /\ [][NextAuto]_vars

\* ------------------------------------------------------------------ claim C21

\* the table in force and its threshold
LevelsInForce ==
    IF "confidence_levels" \in DOMAIN arg.config THEN arg.config.confidence_levels
    ELSE [high |-> 9, medium |-> 7, low |-> 5]

ThresholdInForce ==
    IF "auto_match_threshold" \in DOMAIN arg.config THEN arg.config.auto_match_threshold ELSE 7

\* the score of the tier asked about: 0 for a tier the table lacks
ScoreInForce ==
    IF arg.confidence \in DOMAIN LevelsInForce THEN LevelsInForce[arg.confidence] ELSE 0

\* C21: should_auto_match(tier) is true exactly when the score of the tier is
\* at least the threshold, a tier the table lacks scoring 0; under the shipped
\* configuration it is true for high and medium and false for low and for
\* every tier the table lacks.
C21_AutoMatchThreshold ==
    pc = "done" =>
        /\ ret = (ScoreInForce >= ThresholdInForce)
        /\ arg.config = MATCHING => (ret = (arg.confidence \in {"high", "medium"}))

C21_Witness ==
    /\ pc = "done"
    /\ arg.config = MATCHING /\ arg.confidence = "medium"
    /\ ret = TRUE

\* ============================================================ reservations
\* api/equipment.py: create_reservation, update_reservation,
\* confirm_reservation, cancel_reservation, complete_reservation.
\* Datetimes are the integers 1..MaxTime. The free-text columns purpose and
\* notes are not modelled: no handler reads them.

MaxTime == 3

MaxReservations == 2

Times == 1..MaxTime

ReservationStatus == {"pending", "confirmed", "completed", "cancelled"}

\* the body of a response is reduced to its error text ("" on success)
Response(status, error) == [status |-> status, error |-> error]

NoResponse == Response(0, "")

\* the equipment table: id -> status; id 4 is not in the table
EquipmentTable == (1 :> "available") @@ (2 :> "reserved") @@ (3 :> "maintenance")

ReservationMembers == {1}

Reservation(id, data) ==
    [id |-> id, equipment_id |-> data.equipment_id, member_id |-> data.member_id,
     start_date |-> data.start_date, end_date |-> data.end_date, status |-> data.status]

\* ReservationCreateSchema.load: the four required fields (unless partial),
\* status one of the enum's values, and load_default pending for an absent
\* status (a partial load applies no default)
reservation_create_schema_load(data, partial) ==
    [errors |-> \/ (~partial /\ ~({"equipment_id", "member_id", "start_date", "end_date"} \subseteq DOMAIN data))
                \/ ("status" \in DOMAIN data /\ data["status"] \notin ReservationStatus),
     data |-> IF partial \/ "status" \in DOMAIN data THEN data ELSE data @@ ("status" :> "pending")]

\* the or_ of the conflict query: the three ways a stored row meets [start, end)
dates_conflict(r, start_date, end_date) ==
    \/ (r.start_date <= start_date /\ r.end_date > start_date)
    \/ (r.start_date < end_date /\ r.end_date >= end_date)
    \/ (r.start_date >= start_date /\ r.end_date <= end_date)

\* the conflict query; exclude_id = 0 is the query of create_reservation,
\* which has no id filter
conflicts(rows, equipment_id, exclude_id, start_date, end_date) ==
    {i \in 1..Len(rows) :
        /\ rows[i].equipment_id = equipment_id
        /\ rows[i].id # exclude_id
        /\ rows[i].status \in {"pending", "confirmed"}
        /\ dates_conflict(rows[i], start_date, end_date)}

\* create_reservation up to and including the conflict query: the response
\* that ends the request, or NoResponse when the handler goes on to insert
create_checks(data, d) ==
    IF data.equipment_id \notin DOMAIN d.equipment
    THEN Response(404, "Sprzet nie znaleziony")
    ELSE IF d.equipment[data.equipment_id] \notin {"available", "reserved"}
    THEN Response(400, "Sprzet niedostepny")
    ELSE IF data.member_id \notin d.members
    THEN Response(404, "Czlonek nie znaleziony")
    ELSE IF data.start_date >= data.end_date
    THEN Response(400, "Data koncowa musi byc pozniejsza niz poczatkowa")
    ELSE IF conflicts(d.reservations, data.equipment_id, 0, data.start_date, data.end_date) # {}
    THEN Response(409, "Konflikt rezerwacji")
    ELSE NoResponse

\* db.session.add(reservation); db.session.commit()
create_insert(data, d) ==
    [d EXCEPT !.reservations = Append(@, Reservation(Len(@) + 1, data))]

create_loaded(data, d, rejection) ==
    IF rejection # NoResponse
    THEN [db |-> d, response |-> rejection]
    ELSE [db |-> create_insert(data, d), response |-> Response(201, "")]

create_after_load(loaded, d) ==
    IF loaded.errors
    THEN [db |-> d, response |-> Response(400, "errors")]
    ELSE create_loaded(loaded.data, d, create_checks(loaded.data, d))

create_reservation(request, d) ==
    create_after_load(reservation_create_schema_load(request, FALSE), d)

reservation_ids(d) == 1..Len(d.reservations)

get_or_404_aborts(d) == [db |-> d, response |-> Response(404, "Not Found")]

\* the setattr loop over start_date and end_date, then the status assignment
update_row(r, data) ==
    [r EXCEPT !.start_date = dict_get(data, "start_date", @),
              !.end_date = dict_get(data, "end_date", @),
              !.status = dict_get(data, "status", @)]

update_apply(id, data, d) ==
    [db |-> [d EXCEPT !.reservations[id] = update_row(@, data)], response |-> Response(200, "")]

update_dates(id, data, d, start_date, end_date) ==
    IF start_date >= end_date
    THEN [db |-> d, response |-> Response(400, "Data koncowa musi byc pozniejsza niz poczatkowa")]
    ELSE IF conflicts(d.reservations, d.reservations[id].equipment_id, id, start_date, end_date) # {}
    THEN [db |-> d, response |-> Response(409, "Konflikt rezerwacji z innymi terminami")]
    ELSE update_apply(id, data, d)

update_loaded(id, data, d) ==
    IF "start_date" \in DOMAIN data \/ "end_date" \in DOMAIN data
    THEN update_dates(id, data, d,
                      dict_get(data, "start_date", d.reservations[id].start_date),
                      dict_get(data, "end_date", d.reservations[id].end_date))
    ELSE update_apply(id, data, d)

update_after_load(id, loaded, d) ==
    IF loaded.errors
    THEN [db |-> d, response |-> Response(400, "errors")]
    ELSE update_loaded(id, loaded.data, d)

update_reservation(id, request, d) ==
    IF id \notin reservation_ids(d)
    THEN get_or_404_aborts(d)
    ELSE update_after_load(id, reservation_create_schema_load(request, TRUE), d)

set_status(id, status, d) ==
    [db |-> [d EXCEPT !.reservations[id].status = status], response |-> Response(200, "")]

\* confirm_reservation without its status test
confirm_reservation_unguarded(id, d) ==
    IF id \notin reservation_ids(d)
    THEN get_or_404_aborts(d)
    ELSE set_status(id, "confirmed", d)

confirm_reservation(id, d) ==
    IF id \notin reservation_ids(d)
    THEN get_or_404_aborts(d)
    ELSE IF d.reservations[id].status # "pending"
    THEN [db |-> d, response |-> Response(400, "Nie mozna potwierdzic rezerwacji")]
    ELSE set_status(id, "confirmed", d)

cancel_reservation(id, d) ==
    IF id \notin reservation_ids(d)
    THEN get_or_404_aborts(d)
    ELSE IF d.reservations[id].status \in {"completed", "cancelled"}
    THEN [db |-> d, response |-> Response(400, "Rezerwacja jest juz zakonczona lub anulowana")]
    ELSE set_status(id, "cancelled", d)

complete_reservation(id, d) ==
    IF id \notin reservation_ids(d)
    THEN get_or_404_aborts(d)
    ELSE IF d.reservations[id].status # "confirmed"
    THEN [db |-> d, response |-> Response(400, "Tylko potwierdzone rezerwacje mozna oznaczyc jako zakonczone")]
    ELSE set_status(id, "completed", d)

\* ---------------------------------------------------------------- requests

\* well-formed bodies on the two reservable pieces of equipment, with or
\* without a status; start >= end included
CreateBodies ==
    {("equipment_id" :> e) @@ ("member_id" :> 1) @@ ("start_date" :> s) @@ ("end_date" :> t) :
        e \in {1, 2}, s \in Times, t \in Times}

CreateRequests ==
    CreateBodies
    \cup {b @@ ("status" :> st) : b \in {c \in CreateBodies : c["equipment_id"] = 1},
                                 st \in {"confirmed", "cancelled"}}
    \cup {("equipment_id" :> e) @@ ("member_id" :> 1) @@ ("start_date" :> 1) @@ ("end_date" :> 2) :
            e \in {3, 4}}
    \cup {("equipment_id" :> 1) @@ ("member_id" :> 9) @@ ("start_date" :> 1) @@ ("end_date" :> 2),
          ("equipment_id" :> 1) @@ ("start_date" :> 1) @@ ("end_date" :> 2),
          ("equipment_id" :> 1) @@ ("member_id" :> 1) @@ ("start_date" :> 1) @@ ("end_date" :> 2)
              @@ ("status" :> "done")}

EmptyBody == [k \in {} |-> 0]

DateBodies ==
    {EmptyBody} \cup {("start_date" :> s) : s \in Times} \cup {("end_date" :> t) : t \in Times}
    \cup {("start_date" :> s) @@ ("end_date" :> t) : s \in Times, t \in Times}

UpdateRequests ==
    DateBodies \cup {b @@ ("status" :> st) : b \in DateBodies, st \in ReservationStatus \cup {"done"}}

RequestIds == 1..(MaxReservations + 1)

\* ------------------------------------------------------------ specification

InitReserve ==
    /\ db = [equipment |-> EquipmentTable, members |-> ReservationMembers, reservations |-> << >>]
    /\ pc = "ready"
    /\ arg = 0
    /\ ret = NoResponse
    /\ IdleMatch

Served(name, id, out) ==
    /\ Len(out.db.reservations) <= MaxReservations
    /\ db' = out.db
    /\ ret' = out.response
    /\ arg' = id
    /\ pc' = name
    /\ UNCHANGED matchVars

CreateReservation == \E request \in CreateRequests : Served("create", 0, create_reservation(request, db))

UpdateReservation ==
    \E id \in RequestIds, request \in UpdateRequests :
        Served("update", id, update_reservation(id, request, db))

ConfirmReservation == \E id \in RequestIds : Served("confirm", id, confirm_reservation(id, db))

CancelReservation == \E id \in RequestIds : Served("cancel", id, cancel_reservation(id, db))

CompleteReservation == \E id \in RequestIds : Served("complete", id, complete_reservation(id, db))

NextReserve ==
    \/ CreateReservation
    \/ UpdateReservation
    \/ ConfirmReservation
    \/ CancelReservation
    \/ CompleteReservation

SpecReserve == InitReserve /\ [][NextReserve]_vars

\* ------------------------------------------------------------------ claim C22

Active(r) == r.status \in {"pending", "confirmed"}

\* one starts before the other ends and ends after the other starts
Overlap(r, q) == r.start_date < q.end_date /\ r.end_date > q.start_date

\* C22: after any sequence of create, update, confirm, cancel and complete
\* requests, no two reservations of the same equipment that are both pending
\* or confirmed have overlapping time intervals.
C22_NoActiveOverlap ==
    \A i, j \in 1..Len(db.reservations) :
        (i < j /\ db.reservations[i].equipment_id = db.reservations[j].equipment_id
               /\ Active(db.reservations[i]) /\ Active(db.reservations[j]))
            => ~Overlap(db.reservations[i], db.reservations[j])

\* ------------------------------------------------------------------ claim C29

StatusEdges ==
    {<<"pending", "confirmed">>, <<"pending", "cancelled">>,
     <<"confirmed", "cancelled">>, <<"confirmed", "completed">>}

ByStatusEndpoint == pc' \in {"confirm", "cancel", "complete"}

C29_Step ==
    ByStatusEndpoint =>
        /\ Len(db'.reservations) = Len(db.reservations)
        /\ \A i \in 1..Len(db.reservations) :
              \/ db'.reservations[i] = db.reservations[i]
              \/ /\ <<db.reservations[i].status, db'.reservations[i].status>> \in StatusEdges
                 /\ db'.reservations[i] = [db.reservations[i] EXCEPT !.status = db'.reservations[i].status]
                 /\ i = arg'
                 /\ ret'.status = 200
        /\ (arg' \in 1..Len(db.reservations) /\ db.reservations[arg'].status \in {"completed", "cancelled"})
              => (ret'.status = 400 /\ db' = db)
        /\ ret'.status >= 400 => db' = db
        /\ ret'.status \in {200, 400, 404}

\* C29: through the confirm, cancel and complete endpoints a reservation's
\* status changes only along pending->confirmed, pending->cancelled,
\* confirmed->cancelled and confirmed->completed; completed and cancelled are
\* terminal for these endpoints; a rejected transition returns an error and
\* leaves the reservation unchanged.
C29_StatusTransitions == [][C29_Step]_vars

\* a confirmed reservation has been completed, and a further request on it
\* has been rejected
C29_Witness ==
    /\ pc \in {"confirm", "cancel", "complete"}
    /\ arg \in 1..Len(db.reservations)
    /\ db.reservations[arg].status = "completed"
    /\ ret.status = 400

\* ================================================= concurrent create_reservation
\* Two requests served at the same time (two workers, one database). The
\* handler takes no lock and the table has no constraint on intervals, so a
\* request is two steps on the shared tables: its reads up to the conflict
\* query, and its insert with the commit.

Workers == {1, 2}

loaded_data(request) == reservation_create_schema_load(request, FALSE).data

InitRace ==
    /\ db = [equipment |-> EquipmentTable, members |-> ReservationMembers, reservations |-> << >>]
    /\ pc = [w \in Workers |-> "start"]
    /\ arg \in [Workers -> CreateRequests]
    /\ ret = [w \in Workers |-> NoResponse]
    /\ IdleMatch

Rejected(w, response) ==
    /\ ret' = [ret EXCEPT ![w] = response]
    /\ pc' = [pc EXCEPT ![w] = "done"]
    /\ UNCHANGED <<arg, db>>
    /\ UNCHANGED matchVars

Checked(w, rejection) ==
    IF rejection # NoResponse
    THEN Rejected(w, rejection)
    ELSE /\ pc' = [pc EXCEPT ![w] = "checked"]
         /\ UNCHANGED <<arg, ret, db>>
         /\ UNCHANGED matchVars

\* schema load, the equipment and member lookups and the conflict query
RaceCheck(w) ==
    /\ pc[w] = "start"
    /\ IF reservation_create_schema_load(arg[w], FALSE).errors
       THEN Rejected(w, Response(400, "errors"))
       ELSE Checked(w, create_checks(loaded_data(arg[w]), db))

\* db.session.add(reservation); db.session.commit()
RaceInsert(w) ==
    /\ pc[w] = "checked"
    /\ db' = create_insert(loaded_data(arg[w]), db)
    /\ ret' = [ret EXCEPT ![w] = Response(201, "")]
    /\ pc' = [pc EXCEPT ![w] = "done"]
    /\ UNCHANGED arg
    /\ UNCHANGED matchVars

NextRace == \E w \in Workers : RaceCheck(w) \/ RaceInsert(w)

SpecRace == InitRace /\ [][NextRace]_vars

\* ------------------------------------------------------------------ claim C28

\* a request that nothing but a conflict can reject
Sound(request) ==
    /\ ~reservation_create_schema_load(request, FALSE).errors
    /\ create_checks(loaded_data(request),
                     [equipment |-> EquipmentTable, members |-> ReservationMembers,
                      reservations |-> << >>]) = NoResponse
    /\ loaded_data(request).status \in {"pending", "confirmed"}

\* two sound requests for the same equipment with overlapping intervals
Rivals ==
    /\ Sound(arg[1]) /\ Sound(arg[2])
    /\ arg[1]["equipment_id"] = arg[2]["equipment_id"]
    /\ Overlap(loaded_data(arg[1]), loaded_data(arg[2]))

\* C28: when two create_reservation requests for the same equipment with
\* overlapping intervals are served concurrently, at most one of them is
\* stored as a pending or confirmed reservation and the other is rejected
\* with a conflict.
C28_OneRivalStored ==
    (pc = [w \in Workers |-> "done"] /\ Rivals) =>
        /\ Cardinality({i \in 1..Len(db.reservations) : Active(db.reservations[i])}) <= 1
        /\ \E w \in Workers : ret[w].status = 409

\* ============================================================ event participation
\* api/events.py: register_participant, cancel_participation;
\* models/event.py: registered_count, spots_available, is_full,
\* is_registration_open.
\* One event (id 1). registered_at is a clock that every registration reads
\* and advances; registration_deadline is reduced to whether today is past it.

MaxRegistrations == 4

\* max_participants of an event without a limit (the column is nullable)
NoLimit == -1

ParticipantStatus == {"registered", "waitlist", "confirmed", "cancelled"}

\* the members table: id -> status; id 9 is not in the table
EventMembers == (1 :> "active") @@ (2 :> "active") @@ (3 :> "active") @@ (4 :> "suspended")

registered_count(d) ==
    Cardinality({i \in 1..Len(d.participants) :
                    d.participants[i].status \in {"registered", "confirmed"}})

spots_available(d) ==
    IF d.event.max_participants = NoLimit
    THEN 999
    ELSE IF d.event.max_participants - registered_count(d) > 0
         THEN d.event.max_participants - registered_count(d)
         ELSE 0

is_full(d) ==
    IF d.event.max_participants = NoLimit
    THEN FALSE
    ELSE registered_count(d) >= d.event.max_participants

is_registration_open(d) ==
    IF d.event.status # "registration_open"
    THEN FALSE
    ELSE d.event.registration_deadline # "past"

\* `if event.max_participants`: neither None nor 0
has_limit(d) == d.event.max_participants \notin {NoLimit, 0}

\* EventParticipant.query.filter_by(event_id, member_id).first(); 0 if none
\* (the pair is unique in the table)
existing_participant(d, member_id) ==
    IF \E i \in 1..Len(d.participants) : d.participants[i].member_id = member_id
    THEN CHOOSE i \in 1..Len(d.participants) : d.participants[i].member_id = member_id
    ELSE 0

\* the re-registration of a cancelled participant
register_again(d, i) ==
    [db |-> [d EXCEPT !.participants[i].status = IF ~is_full(d) THEN "registered" ELSE "waitlist",
                      !.participants[i].registered_at = d.now,
                      !.now = @ + 1],
     response |-> Response(200, "")]

\* the event's status after the insert: registered_count is read after the
\* session has flushed the new row
status_after_insert(d) ==
    IF has_limit(d) /\ registered_count(d) + 1 >= d.event.max_participants
                    /\ d.event.status = "registration_open"
    THEN [d EXCEPT !.event.status = "full"]
    ELSE d

register_new(d, member_id) ==
    [db |-> status_after_insert(
                [d EXCEPT !.participants =
                              Append(@, [id |-> Len(@) + 1, member_id |-> member_id,
                                         status |-> IF is_full(d) THEN "waitlist" ELSE "registered",
                                         registered_at |-> d.now]),
                          !.now = @ + 1]),
     response |-> Response(201, "")]

register_member(d, member_id, i) ==
    IF i # 0
    THEN IF d.participants[i].status = "cancelled"
         THEN register_again(d, i)
         ELSE [db |-> d, response |-> Response(409, "Czlonek jest juz zapisany na to wydarzenie")]
    ELSE register_new(d, member_id)

register_participant(event_id, request, d) ==
    IF event_id # 1
    THEN get_or_404_aborts(d)
    ELSE IF "member_id" \notin DOMAIN request
    THEN [db |-> d, response |-> Response(400, "errors")]
    ELSE IF ~is_registration_open(d) /\ d.event.status # "planned"
    THEN [db |-> d, response |-> Response(400, "Rejestracja na to wydarzenie jest zamknieta")]
    ELSE IF request["member_id"] \notin DOMAIN d.members
    THEN [db |-> d, response |-> Response(404, "Czlonek nie znaleziony")]
    ELSE IF d.members[request["member_id"]] # "active"
    THEN [db |-> d, response |-> Response(400, "Tylko aktywni czlonkowie moga sie rejestrowac")]
    ELSE register_member(d, request["member_id"], existing_participant(d, request["member_id"]))

\* the waitlisted participant with the least registered_at; 0 if none
first_waitlisted(d) ==
    IF \E i \in 1..Len(d.participants) : d.participants[i].status = "waitlist"
    THEN CHOOSE i \in 1..Len(d.participants) :
            /\ d.participants[i].status = "waitlist"
            /\ \A j \in 1..Len(d.participants) :
                  d.participants[j].status = "waitlist"
                      => d.participants[i].registered_at <= d.participants[j].registered_at
    ELSE 0

promote_first(d, i) ==
    IF has_limit(d) /\ i # 0
    THEN [d EXCEPT !.participants[i].status = "registered"]
    ELSE d

reopen(d) ==
    IF d.event.status = "full" /\ spots_available(d) > 0
    THEN [d EXCEPT !.event.status = "registration_open"]
    ELSE d

\* participant.status = CANCELLED; the waitlist query flushes it first
cancelled(d, id) == [d EXCEPT !.participants[id].status = "cancelled"]

cancel_participation(event_id, participant_id, caller, d) ==
    IF event_id # 1 \/ participant_id \notin 1..Len(d.participants)
    THEN get_or_404_aborts(d)
    ELSE IF caller.role # "admin" /\ caller.member_id # d.participants[participant_id].member_id
    THEN [db |-> d, response |-> Response(403, "Brak uprawnien do anulowania tej rejestracji")]
    ELSE [db |-> reopen(promote_first(cancelled(d, participant_id),
                                      first_waitlisted(cancelled(d, participant_id)))),
          response |-> Response(200, "")]

\* ------------------------------------------------------------ specification

Events ==
    [max_participants : {NoLimit, 0, 1, 2},
     status : {"planned", "registration_open", "completed"},
     registration_deadline : {"none", "past"}]

\* a participant that an organiser has confirmed before
ConfirmedBefore == <<[id |-> 1, member_id |-> 1, status |-> "confirmed", registered_at |-> 0]>>

InitEvents ==
    /\ \E event \in Events :
       \E before \in {<< >>} \cup (IF event.max_participants \in {NoLimit, 1, 2}
                                   THEN {ConfirmedBefore} ELSE {}) :
          db = [event |-> event, members |-> EventMembers, participants |-> before, now |-> 1]
    /\ pc = "ready"
    /\ arg = 0
    /\ ret = NoResponse
    /\ IdleMatch

RegisterRequests ==
    {("member_id" :> m) : m \in {1, 2, 3, 4, 9}} \cup {EmptyBody}

Callers == {[role |-> "admin", member_id |-> 0]} \cup [role : {"member"}, member_id : {0, 1, 2}]

EventServed(name, id, out) ==
    /\ out.db.now <= MaxRegistrations + 1
    /\ db' = out.db
    /\ ret' = out.response
    /\ arg' = id
    /\ pc' = name
    /\ UNCHANGED matchVars

RegisterParticipant ==
    \E event_id \in {1, 2}, request \in RegisterRequests :
        EventServed("register", 0, register_participant(event_id, request, db))

CancelParticipation ==
    \E event_id \in {1, 2}, participant_id \in 1..4, caller \in Callers :
        EventServed("cancel", participant_id,
                    cancel_participation(event_id, participant_id, caller, db))

NextEvents == RegisterParticipant \/ CancelParticipation

SpecEvents == InitEvents /\ [][NextEvents]_vars

\* ------------------------------------------------------------------ claim C23

\* C23: for an event with a fixed, non-null max_participants, after any
\* sequence of register_participant and cancel_participation requests the
\* number of participants in status registered or confirmed never exceeds
\* max_participants.
C23_WithinCapacity ==
    db.event.max_participants # NoLimit => registered_count(db) <= db.event.max_participants

\* C23, second part: a waitlisted participant becomes registered only in a
\* step that frees a registered or confirmed place.
C23_PromotionNeedsFreedPlace ==
    [][\A i \in 1..Len(db.participants) :
          (db.participants[i].status = "waitlist" /\ db'.participants[i].status = "registered")
              => \E j \in 1..Len(db.participants) :
                    /\ db.participants[j].status \in {"registered", "confirmed"}
                    /\ db'.participants[j].status \notin {"registered", "confirmed"}]_vars

\* ============================================================ manual matching
\* api/finance.py: match_transaction, unmatch_transaction, next to
\* confirm_import, on the tables of the import (members, fees, transactions).
\* None is 0 for an id and "" for match_confidence, as in the entries of the
\* confirm request.

FinanceResponse(status) == [status |-> status, created |-> 0, skipped |-> 0]

fee_row(fee_id) == FeeTable[CHOOSE i \in 1..Len(FeeTable) : FeeTable[i].id = fee_id]

\* if 'fee_id' in data and data['fee_id']: fee = Fee.query.get(...);
\* if fee and fee.member_id == member.id: mark it as paid
match_fee(d, transaction, data) ==
    IF /\ "fee_id" \in DOMAIN data
       /\ data["fee_id"] # 0
       /\ data["fee_id"] \in DOMAIN d.fees
       /\ fee_row(data["fee_id"]).member_id = data["member_id"]
    THEN mark_as_paid(d, data["fee_id"], transaction.date, transaction.id)
    ELSE d

match_member(d, id, data) ==
    match_fee([d EXCEPT !.transactions[id].matched_member_id = data["member_id"],
                        !.transactions[id].match_confidence = "manual"],
              d.transactions[id], data)

match_transaction(request, d) ==
    IF ~check_write_permission(request.role)
    THEN [db |-> d, response |-> FinanceResponse(403)]
    ELSE IF request.transaction_id \notin 1..Len(d.transactions)
    THEN [db |-> d, response |-> FinanceResponse(404)]
    ELSE IF "member_id" \notin DOMAIN request.data
    THEN [db |-> d, response |-> FinanceResponse(400)]
    ELSE IF request.data["member_id"] \notin DOMAIN d.members
    THEN [db |-> d, response |-> FinanceResponse(404)]
    ELSE [db |-> match_member(d, request.transaction_id, request.data),
          response |-> FinanceResponse(200)]

\* the fees whose transaction_id names the transaction
linked_fees(d, id) == {f \in DOMAIN d.fees : d.fees[f].transaction_id = id}

\* transaction.matched_fee is the backref of Fee.transaction, declared as
\* backref='matched_fee' on the side of the foreign key; d.matched_fee says
\* how the mapper resolves it. Resolved as a scalar, the three assignments
\* reach the fee row (one of the rows, when several fees name the
\* transaction); resolved as a collection, they set attributes of the list
\* and no row changes.
unlink_fee(d, id, fee_id) ==
    IF linked_fees(d, id) # {} /\ d.matched_fee = "scalar"
    THEN [d EXCEPT !.fees[fee_id] = FeeState("pending", << >>, 0)]
    ELSE d

unmatch_transaction(request, d, fee_id) ==
    IF ~check_write_permission(request.role)
    THEN [db |-> d, response |-> FinanceResponse(403)]
    ELSE IF request.transaction_id \notin 1..Len(d.transactions)
    THEN [db |-> d, response |-> FinanceResponse(404)]
    ELSE [db |-> [unlink_fee(d, request.transaction_id, fee_id)
                     EXCEPT !.transactions[request.transaction_id].matched_member_id = 0,
                            !.transactions[request.transaction_id].match_confidence = ""],
          response |-> FinanceResponse(200)]

\* the fee the scalar backref may hold: any fee naming the transaction (any
\* fee id when there is none: the value is not used then)
backref_choices(d, id) == IF linked_fees(d, id) = {} THEN {0} ELSE linked_fees(d, id)

\* ---------------------------------------------------------------- requests

MatchBodies ==
    {("member_id" :> m) : m \in {1, 2, 9}}
    \cup {("member_id" :> m) @@ ("fee_id" :> f) : m \in {1, 2}, f \in {0, 11, 12, 99}}
    \cup {EmptyBody, ("fee_id" :> 11)}

MatchRequests ==
    [role : {"treasurer"}, transaction_id : 1..(MaxStored + 1), data : MatchBodies]
    \cup [role : {"member"}, transaction_id : {1}, data : {("member_id" :> 1)}]

UnmatchRequests ==
    [role : {"treasurer"}, transaction_id : 1..(MaxStored + 1)]
    \cup [role : {"member"}, transaction_id : {1}]

\* ------------------------------------------------------------ specifications

ActiveDatabases == {d \in Databases : \A m \in DOMAIN d.members : d.members[m] = "active"}

InitLedger ==
    /\ db \in ActiveDatabases
    /\ arg = << >>
    /\ ret = FinanceResponse(0)
    /\ pc = "ready"
    /\ IdleMatch

\* the same tables, and the resolution of the backref, fixed for the run
InitFinance ==
    /\ db \in {[members |-> d.members, fees |-> d.fees, transactions |-> d.transactions,
                 matched_fee |-> k] : d \in ActiveDatabases, k \in {"scalar", "collection"}}
    /\ arg = << >>
    /\ ret = FinanceResponse(0)
    /\ pc = "ready"
    /\ IdleMatch

FinanceServed(name, request, out) ==
    /\ Len(out.db.transactions) <= MaxStored
    /\ db' = out.db
    /\ ret' = out.response
    /\ arg' = request
    /\ pc' = name
    /\ UNCHANGED matchVars

ConfirmImport ==
    \E request \in ConfirmRequests : FinanceServed("confirm", request, confirm_import(request, db))

\* confirm_import of at most one entry
ConfirmOne ==
    \E request \in {r \in ConfirmRequests : Len(r.transactions) <= 1} :
        FinanceServed("confirm", request, confirm_import(request, db))

MatchTransaction ==
    \E request \in MatchRequests : FinanceServed("match", request, match_transaction(request, db))

UnmatchTransaction ==
    \E request \in UnmatchRequests :
        \E fee_id \in backref_choices(db, request.transaction_id) :
            FinanceServed("unmatch", request, unmatch_transaction(request, db, fee_id))

\* match_transaction and confirm_import
NextLedger == ConfirmImport \/ MatchTransaction

SpecLedger == InitLedger /\ [][NextLedger]_vars

NextFinance == ConfirmOne \/ MatchTransaction \/ UnmatchTransaction

SpecFinance == InitFinance /\ [][NextFinance]_vars

\* ------------------------------------------------------------------ claim C24

\* C24: after any sequence of match_transaction and confirm_import requests,
\* every fee that is marked paid and linked to a transaction belongs to the
\* member that transaction is matched to.
C24_PaidFeeOfMatchedMember ==
    \A f \in DOMAIN db.fees :
        (db.fees[f].status = "paid" /\ db.fees[f].transaction_id # 0)
            => db.transactions[db.fees[f].transaction_id].matched_member_id = fee_row(f).member_id

\* C24, second part: a request that names a member and a fee of another
\* member does not mark that fee paid.
C24_ForeignFeeNotPaid ==
    [][\A f \in DOMAIN db.fees :
          (db.fees[f].status # "paid" /\ db'.fees[f].status = "paid")
              => db'.transactions[db'.fees[f].transaction_id].matched_member_id
                     = fee_row(f).member_id]_vars

\* ------------------------------------------------------------------ claim C25

Referenced(txs) == \A i \in 1..Len(txs) : txs[i].bank_reference # << >>

UniqueReferences(d) ==
    \A i, j \in 1..Len(d.transactions) :
        (i < j /\ d.transactions[i].bank_reference # << >>)
            => d.transactions[i].bank_reference # d.transactions[j].bank_reference

\* the step confirms again the batch that the step before confirmed
Resubmitted ==
    /\ pc = "confirm" /\ ret.status = 201
    /\ pc' = "confirm" /\ arg' = arg

\* the step confirms a batch whose references are all stored
AllStored ==
    /\ pc' = "confirm" /\ check_write_permission(arg'.role)
    /\ \A i \in 1..Len(arg'.transactions) :
          \E k \in 1..Len(db.transactions) :
              db.transactions[k].bank_reference = arg'.transactions[i].bank_reference

C25_Step ==
    /\ UniqueReferences(db')
    /\ ((Resubmitted \/ AllStored) /\ Referenced(arg'.transactions))
          => /\ db' = db
             /\ ret' = [status |-> 201, created |-> 0, skipped |-> Len(arg'.transactions)]

\* C25: confirm_import is idempotent for entries with a bank_reference: at
\* most one stored transaction per non-empty bank_reference, and confirming
\* an already confirmed batch again creates no transaction, marks no fee and
\* reports every entry as skipped.
C25_ConfirmIdempotent == [][C25_Step]_vars

\* a batch of two referenced entries has been confirmed again
C25_Witness ==
    /\ pc = "confirm"
    /\ Len(arg.transactions) = 2 /\ Referenced(arg.transactions)
    /\ arg.transactions[1].bank_reference # arg.transactions[2].bank_reference
    /\ ret = [status |-> 201, created |-> 0, skipped |-> 2]
    /\ Len(db.transactions) = 2

\* ------------------------------------------------------------------ claim C27

\* the transaction is unmatched and the fee open, as before a first match
Unmatched(d, request) ==
    /\ request.transaction_id \in 1..Len(d.transactions)
    /\ d.transactions[request.transaction_id].matched_member_id = 0
    /\ d.transactions[request.transaction_id].match_confidence = ""
    /\ "fee_id" \in DOMAIN request.data /\ request.data["fee_id"] \in DOMAIN d.fees
    /\ d.fees[request.data["fee_id"]].status \in {"pending", "overdue"}
    /\ d.fees[request.data["fee_id"]].transaction_id = 0

Restored(before, after, request) ==
    /\ after.transactions[request.transaction_id] = before.transactions[request.transaction_id]
    /\ after.fees[request.data["fee_id"]].status = before.fees[request.data["fee_id"]].status
    /\ after.fees[request.data["fee_id"]] = before.fees[request.data["fee_id"]]

RoundTrip(d, request, matched) ==
    (matched.response.status = 200 /\ matched.db.fees[request.data["fee_id"]].status = "paid")
        => \A fee_id \in backref_choices(matched.db, request.transaction_id) :
              Restored(d, unmatch_transaction([role |-> request.role,
                                               transaction_id |-> request.transaction_id],
                                              matched.db, fee_id).db,
                       request)

\* C27: match_transaction with a fee followed by unmatch_transaction restores
\* the state before the match: no matched member, no confidence, and the fee
\* has the status it had before (pending or overdue), no paid_date and no
\* transaction link.
C27_UnmatchRestores ==
    pc # "ready" =>
        \A request \in MatchRequests :
            Unmatched(db, request) => RoundTrip(db, request, match_transaction(request, db))

\* ------------------------------------------------------------------ claim C26

\* C26: every member that match_transactions suggests is an element of the
\* members list it was given, whichever strategy found it (member number,
\* last name, amount only), also when the list of open fees holds fees of
\* members that are not in that list.
C26_SuggestedFromMembers ==
    Returned =>
        \A k \in 1..Len(results) :
            Has(results[k], "suggested_member_id")
                => \E i \in 1..Len(members) : members[i].id = results[k]["suggested_member_id"]

\* ============================================================ generate_fees
\* api/fees.py: generate_fees, on the tables members (id -> status),
\* fee_types (id -> amount) and fees (rows in the order of their ids).

MaxFeeRows == 6

\* date.fromisoformat(s) as isoformat text, << >> for ValueError: the forms
\* YYYY-MM-DD and YYYYMMDD (the week forms are not among the inputs)
date_of_fields(y, m, d) ==
    IF y >= 1 /\ m \in 1..12 /\ d >= 1 /\ d <= DaysInMonth(y, m)
    THEN isoformat(y, m, d)
    ELSE << >>

fromisoformat(s) ==
    IF Len(s) = 10 /\ s[5] = "-" /\ s[8] = "-"
       /\ AllDigits(SubSeq(s, 1, 4) \o SubSeq(s, 6, 7) \o SubSeq(s, 9, 10))
    THEN date_of_fields(ToInt(SubSeq(s, 1, 4)), ToInt(SubSeq(s, 6, 7)), ToInt(SubSeq(s, 9, 10)))
    ELSE IF Len(s) = 8 /\ AllDigits(s)
    THEN date_of_fields(ToInt(SubSeq(s, 1, 4)), ToInt(SubSeq(s, 5, 6)), ToInt(SubSeq(s, 7, 8)))
    ELSE << >>

GenerateResponse(status, created, skipped) ==
    [status |-> status, created |-> created, skipped |-> skipped]

\* a lookup that finds no row
fee_never_exists(d, member_id, fee_type_id, due_date) == FALSE

\* Fee.query.filter_by(member_id, fee_type_id, due_date).first() finds a row
\* (the query flushes the fees added so far)
fee_exists(d, member_id, fee_type_id, due_date) ==
    \E i \in 1..Len(d.fees) :
        /\ d.fees[i].member_id = member_id
        /\ d.fees[i].fee_type_id = fee_type_id
        /\ d.fees[i].due_date = due_date

new_fee(d, member_id, fee_type_id, due_date) ==
    [id |-> Len(d.fees) + 1, member_id |-> member_id, fee_type_id |-> fee_type_id,
     amount |-> d.fee_types[fee_type_id], due_date |-> due_date, status |-> "pending"]

RECURSIVE generate_loop(_, _, _, _, _, _, _)

\* for member in active_members
generate_loop(ms, i, d, fee_type_id, due_date, created, skipped) ==
    IF i > Len(ms)
    THEN [db |-> d, response |-> GenerateResponse(201, created, skipped)]
    ELSE IF fee_exists(d, ms[i], fee_type_id, due_date)
    THEN generate_loop(ms, i + 1, d, fee_type_id, due_date, created, skipped + 1)
    ELSE generate_loop(ms, i + 1,
                       [d EXCEPT !.fees = Append(@, new_fee(d, ms[i], fee_type_id, due_date))],
                       fee_type_id, due_date, created + 1, skipped)

generate_parsed(ms, d, fee_type_id, due_date) ==
    IF due_date = << >>
    THEN [db |-> d, response |-> GenerateResponse(400, 0, 0)]
    ELSE generate_loop(ms, 1, d, fee_type_id, due_date, 0, 0)

generate_checked(ms, d, fee_type_id, due_date) ==
    IF fee_type_id = 0 \/ due_date = << >>
    THEN [db |-> d, response |-> GenerateResponse(400, 0, 0)]
    ELSE IF fee_type_id \notin DOMAIN d.fee_types
    THEN [db |-> d, response |-> GenerateResponse(404, 0, 0)]
    ELSE generate_parsed(ms, d, fee_type_id, fromisoformat(due_date))

\* ms: the active members' ids in the order the query returns them
generate_fees(request, ms, d) ==
    IF ~check_write_permission(request.role)
    THEN [db |-> d, response |-> GenerateResponse(403, 0, 0)]
    ELSE generate_checked(ms, d, dict_get(request.data, "fee_type_id", 0),
                          dict_get(request.data, "due_date", << >>))

active_ids(d) == {m \in DOMAIN d.members : d.members[m] = "active"}

\* Member.query.filter_by(status=MemberStatus.ACTIVE).all(): no ORDER BY
active_id_lists(d) ==
    {s \in [1..Cardinality(active_ids(d)) -> active_ids(d)] :
        \A i, j \in DOMAIN s : i # j => s[i] # s[j]}

\* ------------------------------------------------------------ specification

DueDates == {<<"2", "0", "2", "5", "-", "0", "3", "-", "1", "5">>, <<"2", "0", "2", "5", "0", "3", "1", "5">>, <<"2", "0", "2", "5", "-", "0", "4", "-", "0", "1">>, <<"2", "0", "2", "5", "-", "0", "2", "-", "3", "0">>, <<"1", "5", ".", "0", "3", ".", "2", "0", "2", "5">>}

GenerateBodies ==
    {("fee_type_id" :> t) @@ ("due_date" :> s) : t \in {1, 2}, s \in DueDates}
    \cup {("fee_type_id" :> 7) @@ ("due_date" :> <<"2", "0", "2", "5", "-", "0", "3", "-", "1", "5">>),
          ("fee_type_id" :> 0) @@ ("due_date" :> <<"2", "0", "2", "5", "-", "0", "3", "-", "1", "5">>),
          ("fee_type_id" :> 1) @@ ("due_date" :> << >>),
          ("fee_type_id" :> 1), ("due_date" :> <<"2", "0", "2", "5", "-", "0", "3", "-", "1", "5">>)}

GenerateRequests ==
    [role : {"treasurer"}, data : GenerateBodies]
    \cup [role : {"member"}, data : {("fee_type_id" :> 1) @@ ("due_date" :> <<"2", "0", "2", "5", "-", "0", "3", "-", "1", "5">>)}]

\* a fee of member 1 that exists before the first request
FeeBefore ==
    <<[id |-> 1, member_id |-> 1, fee_type_id |-> 1, amount |-> 100000,
       due_date |-> <<"2", "0", "2", "5", "-", "0", "3", "-", "1", "5">>, status |-> "paid"]>>

InitGenerate ==
    /\ db \in [members : {(1 :> a) @@ (2 :> b) @@ (3 :> "former") : a, b \in {"active", "suspended"}},
               fee_types : {(1 :> 100000) @@ (2 :> 5000)},
               fees : {<< >>, FeeBefore}]
    /\ pc = "ready"
    /\ arg = << >>
    /\ ret = GenerateResponse(0, 0, 0)
    /\ IdleMatch

GenerateServed(request, out) ==
    /\ Len(out.db.fees) <= MaxFeeRows
    /\ db' = out.db
    /\ ret' = out.response
    /\ arg' = request
    /\ pc' = "generate"
    /\ UNCHANGED matchVars

GenerateFees ==
    \E request \in GenerateRequests : \E ms \in active_id_lists(db) :
        GenerateServed(request, generate_fees(request, ms, db))

NextGenerate == GenerateFees

SpecGenerate == InitGenerate /\ [][NextGenerate]_vars

\* ------------------------------------------------------------------ claim C30

OneFeePerKey(d) ==
    \A i, j \in 1..Len(d.fees) :
        (i < j /\ d.fees[i].member_id = d.fees[j].member_id
               /\ d.fees[i].member_id \in active_ids(d))
            => ~(d.fees[i].fee_type_id = d.fees[j].fee_type_id
                 /\ d.fees[i].due_date = d.fees[j].due_date)

\* the fee type and the day a request names
KeyOf(request) ==
    <<dict_get(request.data, "fee_type_id", 0),
      fromisoformat(dict_get(request.data, "due_date", << >>))>>

\* the step repeats the request for the fee type and day that the step
\* before generated
Repeated ==
    /\ pc = "generate" /\ ret.status = 201
    /\ check_write_permission(arg'.role)
    /\ KeyOf(arg') = KeyOf(arg)

C30_Step ==
    /\ OneFeePerKey(db')
    /\ Repeated => /\ db' = db
                   /\ ret' = GenerateResponse(201, 0, Cardinality(active_ids(db)))

\* C30: generate_fees is idempotent: every active member has at most one fee
\* per fee type and due date, and a repeated request with the same
\* fee_type_id and due_date over the same active members creates no fee and
\* reports created = 0 and skipped = the number of active members.
C30_GenerateIdempotent == [][C30_Step]_vars

\* the request has been repeated, with the day written in another form, for
\* two active members
C30_Witness ==
    /\ pc = "generate"
    /\ ret = GenerateResponse(201, 0, 2)
    /\ Cardinality(active_ids(db)) = 2
    /\ arg.data["due_date"] = <<"2", "0", "2", "5", "0", "3", "1", "5">>
    /\ \E i \in 1..Len(db.fees) : db.fees[i].member_id = 2 /\ db.fees[i].due_date = <<"2", "0", "2", "5", "-", "0", "3", "-", "1", "5">>

====
